---- MODULE Spec2Model ----
(***************************************************************************)
(* A model of src/src/type/definition.js: the GraphQL type definitions     *)
(* (wrapping types, lazily resolved field / interface / member cells,      *)
(* field, argument and input-field normalization, and the enum codec).     *)
(*                                                                         *)
(* JavaScript values are tagged records.  A value that is an instance of   *)
(* one of the eight type classes has a "kind" field; every other value     *)
(* has a "t" field naming its typeof / shape.                              *)
(***************************************************************************)
EXTENDS Integers, Sequences, FiniteSets, TLC

VARIABLES
    tv,       \* SpecWrap: the value most recently built by a wrapping constructor
    tres,     \* SpecWrap: outcome of the last constructor call
    enum,     \* SpecEnum: the GraphQLEnumType instance (_values, _valueLookup, _nameLookup)
    econfig,  \* SpecEnum: the configuration the enum was constructed from
    eres,     \* SpecEnum: outcome of the last codec call
    tconfig,  \* Spec: the configuration the type was constructed from
    env,      \* Spec: the environment the user thunks read
    cells,    \* Spec: the lazy cells of the type (_fields, _interfaces, _types)
    calls,    \* Spec: how often each cell's user thunk has been invoked
    stack,    \* Spec: the calls in progress, innermost last (a running thunk, a toConfig)
    ret,      \* Spec: outcome of the call that returned last
    hist,     \* Spec: per cell, whether a resolution has failed / was started re-entrantly
    fcfg,     \* SpecFields: the owner configuration whose field map is normalized
    fres,     \* SpecFields: outcome of the last normalization / required-ness test
    source,   \* SpecIter: the source iterator mapAsyncIterator reads
    mapped    \* SpecIter: the mapped iterator: its mapper, its last call, its history

vars == <<tv, tres, enum, econfig, eres, tconfig, env, cells, calls, stack, ret, hist,
          fcfg, fres, source, mapped>>

wrapVars == <<tv, tres>>
enumVars == <<enum, econfig, eres>>
cellVars == <<tconfig, env, cells, calls, stack, ret, hist>>
argVars  == <<fcfg, fres>>
iterVars == <<source, mapped>>

(***************************************************************************)
(* Bounds of the model.                                                    *)
(***************************************************************************)
MaxDepth  == 4   \* wrapping layers stacked by the constructors
MaxValues == 2   \* enum value records per enum configuration
MaxCalls  == 3   \* invocations of one cell's thunk that the model follows
MaxStack  == 2   \* nesting of accessor calls (a producer calling an accessor)
MaxFields == 2   \* entries of a field map
MaxArgs   == 2   \* entries of an args map
MaxItems  == 3   \* events a source yields from its try block
MaxCleanup == 2  \* values a source yields from its finally block
MaxSteps  == 4   \* calls on a mapped iterator that the model follows

(***************************************************************************)
(* JavaScript values that are not types.                                   *)
(***************************************************************************)
Undefined == [t |-> "undefined"]
Null      == [t |-> "null"]
Num(n)    == [t |-> "number", n |-> n]
Str(s)    == [t |-> "string", s |-> s]
Func(f)   == [t |-> "function", f |-> f]
None      == [t |-> "none"]          \* "no call has been made yet"

\* An array, and an object used as a map: its own enumerable properties in
\* property order, each entry [key, val].  An object with a fixed set of
\* properties (a field config, an argument config, a type) is a record.
Arr(items)      == [t |-> "array", items |-> items]
ObjMap(entries) == [t |-> "objmap", entries |-> entries]

\* v == null
IsNullish(v) == v = [t |-> "undefined"] \/ v = [t |-> "null"]

\* typeof v
TypeOf(v) ==
    IF "t" \notin DOMAIN v THEN "object"
    ELSE IF v.t \in {"null", "objmap", "array"} THEN "object"
    ELSE v.t

(***************************************************************************)
(* The six named types of the model, one per kind.                         *)
(***************************************************************************)
NamedKinds == {"Scalar", "Object", "Interface", "Union", "Enum", "InputObject"}

Named(k) == [kind |-> k, name |-> k]

NamedTypes == {Named(k) : k \in NamedKinds}

\* values that are no types: absent ones, a falsy number, a truthy string
NonTypes == {Undefined, Null, Num(0), Str("Int")}

(***************************************************************************)
(* Kind predicates: instanceOf(type, GraphQLXxx).                          *)
(***************************************************************************)
HasKind(type, k) == "kind" \in DOMAIN type /\ type.kind = k

isScalarType(type)      == HasKind(type, "Scalar")
isObjectType(type)      == HasKind(type, "Object")
isInterfaceType(type)   == HasKind(type, "Interface")
isUnionType(type)       == HasKind(type, "Union")
isEnumType(type)        == HasKind(type, "Enum")
isInputObjectType(type) == HasKind(type, "InputObject")
isListType(type)        == HasKind(type, "List")
isNonNullType(type)     == HasKind(type, "NonNull")

isType(type) ==
    \/ isScalarType(type)
    \/ isObjectType(type)
    \/ isInterfaceType(type)
    \/ isUnionType(type)
    \/ isEnumType(type)
    \/ isInputObjectType(type)
    \/ isListType(type)
    \/ isNonNullType(type)

isWrappingType(type) == isListType(type) \/ isNonNullType(type)

\* Mutant of isNullableType: the "not NonNull" conjunct is dropped.
isNullableType_AnyType(type) == isType(type)

isNullableType(type) == isType(type) /\ ~isNonNullType(type)

Ok(v)      == [ok |-> TRUE, value |-> v]
Throw(err) == [ok |-> FALSE, error |-> err]

(***************************************************************************)
(* Classification predicates over any value, and the unwrapping functions. *)
(***************************************************************************)
\* Mutant of isInputType: a wrapping type is never an input type.
isInputType_NamedOnly(type) ==
    isScalarType(type) \/ isEnumType(type) \/ isInputObjectType(type)

RECURSIVE isInputType(_)
isInputType(type) ==
    \/ isScalarType(type)
    \/ isEnumType(type)
    \/ isInputObjectType(type)
    \/ (isWrappingType(type) /\ isInputType(type.ofType))

\* Mutant of isOutputType: every type is an output type.
isOutputType_AnyType(type) == isType(type)

RECURSIVE isOutputType(_)
isOutputType(type) ==
    \/ isScalarType(type)
    \/ isObjectType(type)
    \/ isInterfaceType(type)
    \/ isUnionType(type)
    \/ isEnumType(type)
    \/ (isWrappingType(type) /\ isOutputType(type.ofType))

isLeafType(type) == isScalarType(type) \/ isEnumType(type)

isCompositeType(type) == isObjectType(type) \/ isInterfaceType(type) \/ isUnionType(type)

isAbstractType(type) == isInterfaceType(type) \/ isUnionType(type)

isNamedType(type) ==
    \/ isScalarType(type)
    \/ isObjectType(type)
    \/ isInterfaceType(type)
    \/ isUnionType(type)
    \/ isEnumType(type)
    \/ isInputObjectType(type)

\* if (v): undefined, null, 0 and the empty string are falsy
Truthy(v) == ~(IsNullish(v) \/ v = Num(0) \/ v = Str(""))

\* Mutant of getNullableType: a List layer is stripped as well.
getNullableType_StripsAnyWrapper(type) ==
    IF Truthy(type)
    THEN IF isWrappingType(type) THEN type.ofType ELSE type
    ELSE Undefined

\* getNullableType(type): a function that ends without return yields undefined
getNullableType(type) ==
    IF Truthy(type)
    THEN IF isNonNullType(type) THEN type.ofType ELSE type
    ELSE Undefined

\* Mutant of getNamedType: one layer is stripped instead of all.
getNamedType_OneLayer(type) ==
    IF Truthy(type)
    THEN IF isWrappingType(type) THEN type.ofType ELSE type
    ELSE Undefined

\* the while loop of getNamedType
RECURSIVE Unwrap(_)
Unwrap(unwrappedType) ==
    IF isWrappingType(unwrappedType) THEN Unwrap(unwrappedType.ofType) ELSE unwrappedType

\* getNamedType(type)
getNamedType(type) == IF Truthy(type) THEN Unwrap(type) ELSE Undefined

\* The assert functions: the value itself when the predicate holds, else an
\* Error whose message names the expected kind and inspects the value.
\* Mutant of assertNullableType: a NonNull type is returned, not rejected.
assertNullableType_AcceptsNonNull(type) ==
    IF isType(type) THEN Ok(type)
    ELSE Throw([msg |-> "Expected to be a GraphQL nullable type", value |-> type])

assertType(type) ==
    IF isType(type) THEN Ok(type)
    ELSE Throw([msg |-> "Expected to be a GraphQL type", value |-> type])

assertScalarType(type) ==
    IF isScalarType(type) THEN Ok(type)
    ELSE Throw([msg |-> "Expected to be a GraphQL Scalar type", value |-> type])

assertObjectType(type) ==
    IF isObjectType(type) THEN Ok(type)
    ELSE Throw([msg |-> "Expected to be a GraphQL Object type", value |-> type])

assertInterfaceType(type) ==
    IF isInterfaceType(type) THEN Ok(type)
    ELSE Throw([msg |-> "Expected to be a GraphQL Interface type", value |-> type])

assertUnionType(type) ==
    IF isUnionType(type) THEN Ok(type)
    ELSE Throw([msg |-> "Expected to be a GraphQL Union type", value |-> type])

assertEnumType(type) ==
    IF isEnumType(type) THEN Ok(type)
    ELSE Throw([msg |-> "Expected to be a GraphQL Enum type", value |-> type])

assertInputObjectType(type) ==
    IF isInputObjectType(type) THEN Ok(type)
    ELSE Throw([msg |-> "Expected to be a GraphQL Input Object type", value |-> type])

assertListType(type) ==
    IF isListType(type) THEN Ok(type)
    ELSE Throw([msg |-> "Expected to be a GraphQL List type", value |-> type])

assertNonNullType(type) ==
    IF isNonNullType(type) THEN Ok(type)
    ELSE Throw([msg |-> "Expected to be a GraphQL Non-Null type", value |-> type])

assertInputType(type) ==
    IF isInputType(type) THEN Ok(type)
    ELSE Throw([msg |-> "Expected to be a GraphQL input type", value |-> type])

assertOutputType(type) ==
    IF isOutputType(type) THEN Ok(type)
    ELSE Throw([msg |-> "Expected to be a GraphQL output type", value |-> type])

assertLeafType(type) ==
    IF isLeafType(type) THEN Ok(type)
    ELSE Throw([msg |-> "Expected to be a GraphQL leaf type", value |-> type])

assertCompositeType(type) ==
    IF isCompositeType(type) THEN Ok(type)
    ELSE Throw([msg |-> "Expected to be a GraphQL composite type", value |-> type])

assertAbstractType(type) ==
    IF isAbstractType(type) THEN Ok(type)
    ELSE Throw([msg |-> "Expected to be a GraphQL abstract type", value |-> type])

assertWrappingType(type) ==
    IF isWrappingType(type) THEN Ok(type)
    ELSE Throw([msg |-> "Expected to be a GraphQL wrapping type", value |-> type])

assertNullableType(type) ==
    IF isNullableType(type) THEN Ok(type)
    ELSE Throw([msg |-> "Expected to be a GraphQL nullable type", value |-> type])

assertNamedType(type) ==
    IF isNamedType(type) THEN Ok(type)
    ELSE Throw([msg |-> "Expected to be a GraphQL named type", value |-> type])

\* the seventeen predicates by name, and their paired asserts
PredicateNames ==
    {"isType", "isScalarType", "isObjectType", "isInterfaceType", "isUnionType", "isEnumType",
     "isInputObjectType", "isListType", "isNonNullType", "isInputType", "isOutputType", "isLeafType",
     "isCompositeType", "isAbstractType", "isWrappingType", "isNullableType", "isNamedType"}

Predicate(p, type) ==
    CASE p = "isType" -> isType(type)
      [] p = "isScalarType" -> isScalarType(type)
      [] p = "isObjectType" -> isObjectType(type)
      [] p = "isInterfaceType" -> isInterfaceType(type)
      [] p = "isUnionType" -> isUnionType(type)
      [] p = "isEnumType" -> isEnumType(type)
      [] p = "isInputObjectType" -> isInputObjectType(type)
      [] p = "isListType" -> isListType(type)
      [] p = "isNonNullType" -> isNonNullType(type)
      [] p = "isInputType" -> isInputType(type)
      [] p = "isOutputType" -> isOutputType(type)
      [] p = "isLeafType" -> isLeafType(type)
      [] p = "isCompositeType" -> isCompositeType(type)
      [] p = "isAbstractType" -> isAbstractType(type)
      [] p = "isWrappingType" -> isWrappingType(type)
      [] p = "isNullableType" -> isNullableType(type)
      [] p = "isNamedType" -> isNamedType(type)

PairedAssert(p, type) ==
    CASE p = "isType" -> assertType(type)
      [] p = "isScalarType" -> assertScalarType(type)
      [] p = "isObjectType" -> assertObjectType(type)
      [] p = "isInterfaceType" -> assertInterfaceType(type)
      [] p = "isUnionType" -> assertUnionType(type)
      [] p = "isEnumType" -> assertEnumType(type)
      [] p = "isInputObjectType" -> assertInputObjectType(type)
      [] p = "isListType" -> assertListType(type)
      [] p = "isNonNullType" -> assertNonNullType(type)
      [] p = "isInputType" -> assertInputType(type)
      [] p = "isOutputType" -> assertOutputType(type)
      [] p = "isLeafType" -> assertLeafType(type)
      [] p = "isCompositeType" -> assertCompositeType(type)
      [] p = "isAbstractType" -> assertAbstractType(type)
      [] p = "isWrappingType" -> assertWrappingType(type)
      [] p = "isNullableType" -> assertNullableType(type)
      [] p = "isNamedType" -> assertNamedType(type)

(***************************************************************************)
(* Wrapping constructors.  devAssert(cond, msg) throws Error(msg) when     *)
(* cond is false; a constructor that throws builds nothing.                *)
(***************************************************************************)
GraphQLList(ofType) ==
    IF isType(ofType)
    THEN Ok([kind |-> "List", ofType |-> ofType])
    ELSE Throw([msg |-> "Expected to be a GraphQL type", value |-> ofType])

GraphQLNonNull(ofType) ==
    IF isNullableType(ofType)
    THEN Ok([kind |-> "NonNull", ofType |-> ofType])
    ELSE Throw([msg |-> "Expected to be a GraphQL nullable type", value |-> ofType])

RECURSIVE Depth(_)
Depth(type) == IF isWrappingType(type) THEN 1 + Depth(type.ofType) ELSE 0

\* new GraphQLList(tv)
NewList ==
    /\ Depth(tv) < MaxDepth
    /\ LET r == GraphQLList(tv) IN
         /\ tres' = [op |-> "List", arg |-> tv, out |-> r]
         /\ tv' = IF r.ok THEN r.value ELSE tv
    /\ UNCHANGED <<iterVars, enumVars, cellVars, argVars>>

\* new GraphQLNonNull(tv)
NewNonNull ==
    /\ Depth(tv) < MaxDepth
    /\ LET r == GraphQLNonNull(tv) IN
         /\ tres' = [op |-> "NonNull", arg |-> tv, out |-> r]
         /\ tv' = IF r.ok THEN r.value ELSE tv
    /\ UNCHANGED <<iterVars, enumVars, cellVars, argVars>>

\* every predicate applied to tv
Classify ==
    /\ tres' = [op |-> "classify", arg |-> tv,
                out |-> [p \in PredicateNames |-> Predicate(p, tv)]]
    /\ UNCHANGED <<iterVars, tv, enumVars, cellVars, argVars>>

\* the assert function paired with predicate p applied to tv
CallAssert(p) ==
    /\ tres' = [op |-> "assert", pred |-> p, arg |-> tv, out |-> PairedAssert(p, tv)]
    /\ UNCHANGED <<iterVars, tv, enumVars, cellVars, argVars>>

\* getNamedType(tv)
GetNamedType ==
    /\ tres' = [op |-> "getNamedType", arg |-> tv, out |-> getNamedType(tv)]
    /\ UNCHANGED <<iterVars, tv, enumVars, cellVars, argVars>>

\* getNullableType(tv)
GetNullableType ==
    /\ tres' = [op |-> "getNullableType", arg |-> tv, out |-> getNullableType(tv)]
    /\ UNCHANGED <<iterVars, tv, enumVars, cellVars, argVars>>

IdleWrap == tv = None /\ tres = None
IdleEnum == enum = None /\ econfig = None /\ eres = None
IdleCell ==
    /\ tconfig = None /\ env = 0 /\ cells = None /\ calls = None
    /\ stack = <<>> /\ ret = None /\ hist = None
IdleArgs == fcfg = None /\ fres = None
IdleIter == source = None /\ mapped = None

InitWrap ==
    /\ tv \in NamedTypes \cup NonTypes
    /\ tres = None
    /\ IdleEnum /\ IdleCell /\ IdleArgs /\ IdleIter

NextWrap ==
    \/ NewList
    \/ NewNonNull
    \/ Classify
    \/ \E p \in PredicateNames : CallAssert(p)
    \/ GetNamedType
    \/ GetNullableType

SpecWrap == InitWrap /\ [][NextWrap]_vars

(***************************************************************************)
(* Enum codec.                                                             *)
(*                                                                         *)
(* An enum configuration is [name, values] where values is the sequence of *)
(* the entries of config.values in Object.entries order (insertion order   *)
(* of the property names); an entry is [name, config] and config is a      *)
(* record that may or may not have a "value" property.                     *)
(***************************************************************************)
EmptyObj == <<>>

EnumNames == {"RED", "GREEN", "BLUE"}

\* the internal values a configuration may state
EnumInternals == {Undefined, Null, Num(0), Num(1), Str("RED")}

EnumValueConfigs == {EmptyObj} \cup {[value |-> v] : v \in EnumInternals}

\* the sequences over S of length at most n
SeqsUpTo(S, n) == UNION {[1..k -> S] : k \in 0..n}

\* property read: obj.key, undefined when the property is absent
Get(obj, key) == IF key \in DOMAIN obj THEN obj[key] ELSE Undefined

\* defineEnumValues(typeName, valueMap): one record per entry, in entry order;
\* the internal value is config.value unless that is undefined, then the name.
\* valueMap is Object.entries of a plain object whose configs are plain
\* objects (EnumValueMaps), so both devAsserts of the source pass.
defineEnumValues(typeName, valueMap) ==
    [i \in DOMAIN valueMap |->
        [name              |-> valueMap[i].name,
         description       |-> Get(valueMap[i].config, "description"),
         value             |-> IF Get(valueMap[i].config, "value") # Undefined
                               THEN Get(valueMap[i].config, "value")
                               ELSE Str(valueMap[i].name),
         deprecationReason |-> Get(valueMap[i].config, "deprecationReason"),
         extensions        |-> Get(valueMap[i].config, "extensions"),
         astNode           |-> Get(valueMap[i].config, "astNode")]]

\* Mutant of MapOf: an entry whose key is already present is skipped
\* (the first entry of a key wins).
RECURSIVE MapOf_FirstWins(_)
MapOf_FirstWins(entries) ==
    IF entries = <<>> THEN <<>>
    ELSE LET n    == Len(entries)
             rest == MapOf_FirstWins(SubSeq(entries, 1, n - 1))
             k    == entries[n][1]
         IN  IF k \in DOMAIN rest THEN rest
             ELSE [x \in DOMAIN rest \cup {k} |-> IF x = k THEN entries[n][2] ELSE rest[x]]

\* new Map(entries): the entries are set in order, so a later entry with an
\* equal key replaces the earlier one
RECURSIVE MapOf(_)
MapOf(entries) ==
    IF entries = <<>> THEN <<>>
    ELSE LET n    == Len(entries)
             rest == MapOf(SubSeq(entries, 1, n - 1))
             k    == entries[n][1]
         IN  [x \in DOMAIN rest \cup {k} |-> IF x = k THEN entries[n][2] ELSE rest[x]]

\* new GraphQLEnumType(config)
GraphQLEnumType(config) ==
    LET values == defineEnumValues(config.name, config.values) IN
    [kind        |-> "Enum",
     name        |-> config.name,
     description |-> Get(config, "description"),
     extensions  |-> Get(config, "extensions"),
     astNode     |-> Get(config, "astNode"),
     extensionASTNodes |-> IF IsNullish(Get(config, "extensionASTNodes"))
                           THEN Arr(<<>>) ELSE config.extensionASTNodes,
     values      |-> values,
     valueLookup |-> MapOf([i \in DOMAIN values |-> <<values[i].value, values[i]>>]),
     nameLookup  |-> MapOf([i \in DOMAIN values |-> <<values[i].name, values[i]>>])]

\* enumType.getValue(name): this._nameLookup[name]
getValue(enumType, name) ==
    IF name \in DOMAIN enumType.nameLookup THEN enumType.nameLookup[name] ELSE Undefined

\* Mutant of serialize: an unknown value yields null instead of an error.
serialize_NullFallback(enumType, outputValue) ==
    IF outputValue \notin DOMAIN enumType.valueLookup
    THEN Ok(Null)
    ELSE Ok(Str(enumType.valueLookup[outputValue].name))

\* Mutant of serialize: the record's internal value is returned, not its name.
serialize_ReturnsValue(enumType, outputValue) ==
    IF outputValue \notin DOMAIN enumType.valueLookup
    THEN Throw([msg   |-> "cannot represent value",
                enum  |-> enumType.name,
                value |-> outputValue])
    ELSE Ok(enumType.valueLookup[outputValue].value)

\* enumType.serialize(outputValue)
serialize(enumType, outputValue) ==
    IF outputValue \notin DOMAIN enumType.valueLookup
    THEN Throw([msg   |-> "cannot represent value",
                enum  |-> enumType.name,
                value |-> outputValue])
    ELSE Ok(Str(enumType.valueLookup[outputValue].name))

\* Mutant of parseValue: an unknown name yields undefined instead of an error.
parseValue_UndefinedFallback(enumType, inputValue) ==
    IF TypeOf(inputValue) # "string"
    THEN Throw([msg   |-> "cannot represent non-string value",
                enum  |-> enumType.name,
                value |-> inputValue])
    ELSE LET enumValue == getValue(enumType, inputValue.s) IN
         IF enumValue = Undefined THEN Ok(Undefined) ELSE Ok(enumValue.value)

\* enumType.parseValue(inputValue)
parseValue(enumType, inputValue) ==
    IF TypeOf(inputValue) # "string"
    THEN Throw([msg   |-> "cannot represent non-string value",
                enum  |-> enumType.name,
                value |-> inputValue])
    ELSE LET enumValue == getValue(enumType, inputValue.s) IN
         IF enumValue = Undefined \/ enumValue = Null
         THEN Throw([msg   |-> "does not exist in enum",
                     enum  |-> enumType.name,
                     value |-> inputValue])
         ELSE Ok(enumValue.value)

\* AST value nodes: the enum literal RED, the string literal "RED", the
\* variable $v, and the enum literal of an unregistered name
KindENUM == "EnumValue"

ValueNodes ==
    {[kind |-> KindENUM, value |-> n] : n \in EnumNames \cup {"PURPLE"}}
    \cup {[kind |-> "StringValue", value |-> "RED"],
          [kind |-> "IntValue", value |-> "0"],
          [kind |-> "Variable", name |-> "v"]}

\* the variables mapping handed to parseLiteral
VariableMaps == {EmptyObj, [v |-> Str("RED")]}

\* Mutant of parseLiteral: the node's kind is not checked, and a variable
\* node is looked up in the variables mapping.
parseLiteral_AnyKind(enumType, valueNode, variables) ==
    LET text == IF "value" \in DOMAIN valueNode THEN valueNode.value
                ELSE IF valueNode.name \in DOMAIN variables
                     THEN variables[valueNode.name].s ELSE "undefined"
        enumValue == getValue(enumType, text) IN
    IF enumValue = Undefined
    THEN Throw([msg  |-> "does not exist in enum",
                enum |-> enumType.name,
                node |-> valueNode])
    ELSE Ok(enumValue.value)

\* enumType.parseLiteral(valueNode, _variables)
parseLiteral(enumType, valueNode, variables) ==
    IF valueNode.kind # KindENUM
    THEN Throw([msg  |-> "cannot represent non-enum value",
                enum |-> enumType.name,
                node |-> valueNode])
    ELSE LET enumValue == getValue(enumType, valueNode.value) IN
         IF enumValue = Undefined \/ enumValue = Null
         THEN Throw([msg  |-> "does not exist in enum",
                     enum |-> enumType.name,
                     node |-> valueNode])
         ELSE Ok(enumValue.value)

\* values handed to serialize and parseValue
CodecInputs ==
    EnumInternals \cup {Num(2)} \cup {Str(n) : n \in EnumNames \cup {"PURPLE"}}

\* enum.serialize(v)
Serialize(v) ==
    /\ eres' = [op |-> "serialize", arg |-> v, out |-> serialize(enum, v)]
    /\ UNCHANGED <<iterVars, enum, econfig, wrapVars, cellVars, argVars>>

\* enum.parseValue(v)
ParseValue(v) ==
    /\ eres' = [op |-> "parseValue", arg |-> v, out |-> parseValue(enum, v)]
    /\ UNCHANGED <<iterVars, enum, econfig, wrapVars, cellVars, argVars>>

\* enum.parseLiteral(node, variables)
ParseLiteral(node, variables) ==
    /\ eres' = [op |-> "parseLiteral", arg |-> node, variables |-> variables,
                out |-> parseLiteral(enum, node, variables)]
    /\ UNCHANGED <<iterVars, enum, econfig, wrapVars, cellVars, argVars>>

\* enum.parseValue(enum.serialize(v)) for the internal value v of record i
RoundTripValue(i) ==
    /\ i \in DOMAIN enum.values
    /\ LET mid == serialize(enum, enum.values[i].value) IN
         eres' = [op |-> "parseValue.serialize", arg |-> i, mid |-> mid,
                  out |-> IF mid.ok THEN parseValue(enum, mid.value) ELSE mid]
    /\ UNCHANGED <<iterVars, enum, econfig, wrapVars, cellVars, argVars>>

\* enum.serialize(enum.parseValue(n)) for the name n of record i
RoundTripName(i) ==
    /\ i \in DOMAIN enum.values
    /\ LET mid == parseValue(enum, Str(enum.values[i].name)) IN
         eres' = [op |-> "serialize.parseValue", arg |-> i, mid |-> mid,
                  out |-> IF mid.ok THEN serialize(enum, mid.value) ELSE mid]
    /\ UNCHANGED <<iterVars, enum, econfig, wrapVars, cellVars, argVars>>

EnumValueMaps ==
    {m \in SeqsUpTo([name : EnumNames, config : EnumValueConfigs], MaxValues) :
        \A i, j \in DOMAIN m : i # j => m[i].name # m[j].name}

InitEnum ==
    /\ econfig \in {[name |-> "Color", values |-> m] : m \in EnumValueMaps}
    /\ enum = GraphQLEnumType(econfig)
    /\ eres = None
    /\ IdleWrap /\ IdleCell /\ IdleArgs /\ IdleIter

NextEnum ==
    \/ \E v \in CodecInputs : Serialize(v)
    \/ \E v \in CodecInputs : ParseValue(v)
    \/ \E node \in ValueNodes, variables \in VariableMaps : ParseLiteral(node, variables)
    \/ \E i \in 1..(MaxValues + 1) : RoundTripValue(i)
    \/ \E i \in 1..(MaxValues + 1) : RoundTripName(i)

SpecEnum == InitEnum /\ [][NextEnum]_vars

(***************************************************************************)
(* "Did you mean" suggestions of the enum codec.                           *)
(*                                                                         *)
(* didYouMeanEnumValue hands the offending text and the registered names   *)
(* to suggestionList and the result to didYouMean; both helpers live in    *)
(* jsutils.  They are modelled here from their documented behaviour: a     *)
(* name qualifies when its edit distance to the text (a change of case     *)
(* only counts as one edit, otherwise letters are compared without case;   *)
(* insertion, deletion, substitution and transposition of neighbours cost  *)
(* one each) is at most floor(0.4 * length of the text) + 1; the           *)
(* qualifying names are ordered by distance, then by name; the clause      *)
(* lists at most five of them and is the empty string when there is none.  *)
(***************************************************************************)
\* names an enum of this section registers, and texts it is asked to parse
SuggestNames == {"RED", "REED", "BLUE"}
SuggestTexts == {"RED", "BLUE", "red", "RD", "RDE", "REDD", "BLEU", "PINK"}

\* the letters of a text, in lower case
Letters(s) ==
    CASE s \in {"RED", "red"} -> <<"r", "e", "d">>
      [] s = "REED"           -> <<"r", "e", "e", "d">>
      [] s = "BLUE"           -> <<"b", "l", "u", "e">>
      [] s = "RD"             -> <<"r", "d">>
      [] s = "RDE"            -> <<"r", "d", "e">>
      [] s = "REDD"           -> <<"r", "e", "d", "d">>
      [] s = "BLEU"           -> <<"b", "l", "e", "u">>
      [] s = "PINK"           -> <<"p", "i", "n", "k">>

\* the position of a registered name in the order of the names
NaturalRank(s) ==
    CASE s = "BLUE" -> 1
      [] s = "RED"  -> 2
      [] s = "REED" -> 3

Min(S) == CHOOSE x \in S : \A y \in S : x <= y

\* edits turning the first i letters of a into the first j letters of b
RECURSIVE Edits(_, _, _, _)
Edits(a, b, i, j) ==
    IF i = 0 THEN j
    ELSE IF j = 0 THEN i
    ELSE Min({Edits(a, b, i - 1, j) + 1,
              Edits(a, b, i, j - 1) + 1,
              Edits(a, b, i - 1, j - 1) + (IF a[i] = b[j] THEN 0 ELSE 1)}
             \cup (IF i > 1 /\ j > 1 /\ a[i] = b[j - 1] /\ a[i - 1] = b[j]
                   THEN {Edits(a, b, i - 2, j - 2) + 1} ELSE {}))

\* the edit distance of a name from the offending text
LexicalDistance(input, option) ==
    IF input = option THEN 0
    ELSE IF Letters(input) = Letters(option) THEN 1
    ELSE Edits(Letters(option), Letters(input), Len(Letters(option)), Len(Letters(input)))

\* the distance budget of a text: floor(0.4 * length) + 1
Threshold(input) == ((2 * Len(Letters(input))) \div 5) + 1

\* suggestionList(input, options): the options within the budget, by
\* increasing distance, names of equal distance in the order of the names
suggestionList(input, options) ==
    LET near == {options[i] : i \in {i \in DOMAIN options :
                    LexicalDistance(input, options[i]) <= Threshold(input)}}
        Before(a, b) ==
            \/ LexicalDistance(input, a) < LexicalDistance(input, b)
            \/ /\ LexicalDistance(input, a) = LexicalDistance(input, b)
               /\ NaturalRank(a) < NaturalRank(b)
    IN  CHOOSE s \in [1..Cardinality(near) -> near] :
            \A i, j \in DOMAIN s : i < j => Before(s[i], s[j])

MAX_SUGGESTIONS == 5

\* the empty string as a clause: no lead, no names
NoClause == [didYouMean |-> "", names |-> <<>>]

\* didYouMean(subMessage, suggestions): the clause appended to the message;
\* the empty string when there is nothing to suggest
didYouMean(subMessage, suggestions) ==
    IF suggestions = <<>> THEN NoClause
    ELSE [didYouMean |-> subMessage,
          names      |-> SubSeq(suggestions, 1,
                                IF Len(suggestions) < MAX_SUGGESTIONS
                                THEN Len(suggestions) ELSE MAX_SUGGESTIONS)]

\* Mutant of didYouMeanEnumValue: every registered name is suggested.
didYouMeanEnumValue_AllNames(enumType, unknownValueStr) ==
    didYouMean("the enum value", [i \in DOMAIN enumType.values |-> enumType.values[i].name])

\* didYouMeanEnumValue(enumType, unknownValueStr)
didYouMeanEnumValue(enumType, unknownValueStr) ==
    LET allNames        == [i \in DOMAIN enumType.values |-> enumType.values[i].name]
        suggestedValues == suggestionList(unknownValueStr, allNames)
    IN  didYouMean("the enum value", suggestedValues)

\* the message of a failed name lookup: the text, and the clause appended
LookupMessage(enumType, out, valueStr) ==
    IF ~out.ok /\ out.error.msg = "does not exist in enum"
    THEN [text |-> out.error.msg, clause |-> didYouMeanEnumValue(enumType, valueStr)]
    ELSE None

\* enum.parseValue(text) with the message of its error
ParseName(text) ==
    /\ LET out == parseValue(enum, Str(text)) IN
         eres' = [op |-> "parseValue", arg |-> text, out |-> out,
                  message |-> LookupMessage(enum, out, text)]
    /\ UNCHANGED <<iterVars, enum, econfig, wrapVars, cellVars, argVars>>

\* enum.parseLiteral(node) of an enum literal with the message of its error;
\* print(node) of an enum literal is its name
ParseEnumLiteral(text) ==
    /\ LET node == [kind |-> KindENUM, value |-> text]
           out  == parseLiteral(enum, node, EmptyObj) IN
         eres' = [op |-> "parseLiteral", arg |-> text, out |-> out,
                  message |-> LookupMessage(enum, out, text)]
    /\ UNCHANGED <<iterVars, enum, econfig, wrapVars, cellVars, argVars>>

SuggestValueMaps ==
    {m \in SeqsUpTo([name : SuggestNames, config : {EmptyObj}], MaxValues) :
        \A i, j \in DOMAIN m : i # j => m[i].name # m[j].name}

InitSuggest ==
    /\ econfig \in {[name |-> "Color", values |-> m] : m \in SuggestValueMaps}
    /\ enum = GraphQLEnumType(econfig)
    /\ eres = None
    /\ IdleWrap /\ IdleCell /\ IdleArgs /\ IdleIter

NextSuggest ==
    \/ \E text \in SuggestTexts : ParseName(text)
    \/ \E text \in SuggestTexts : ParseEnumLiteral(text)

SpecSuggest == InitSuggest /\ [][NextSuggest]_vars

(***************************************************************************)
(* Field, argument and input-field normalization.                          *)
(***************************************************************************)
isArray(v) == "t" \in DOMAIN v /\ v.t = "array"

\* isObjectLike(obj) && !Array.isArray(obj)
isPlainObj(obj) == TypeOf(obj) = "object" /\ obj # Null /\ ~isArray(obj)

\* the position of the first entry of a sequence of outcomes that threw
FirstThrow(outs) == CHOOSE i \in DOMAIN outs : ~outs[i].ok /\ \A j \in 1..(i - 1) : outs[j].ok

\* mapValue(map, fn) where fn may throw: the entries are visited in order and
\* the first throw ends the visit
MapValueOrThrow(map, outs) ==
    IF \E i \in DOMAIN outs : ~outs[i].ok
    THEN outs[FirstThrow(outs)]
    ELSE Ok(ObjMap([i \in DOMAIN outs |-> [key |-> map.entries[i].key, val |-> outs[i].value]]))

\* Mutant of defineArguments: the arguments are listed in reverse order.
defineArguments_Reversed(config) ==
    [i \in DOMAIN config.entries |->
        LET k         == Len(config.entries) + 1 - i
            argName   == config.entries[k].key
            argConfig == config.entries[k].val IN
        [name              |-> argName,
         description       |-> Get(argConfig, "description"),
         type              |-> Get(argConfig, "type"),
         defaultValue      |-> Get(argConfig, "defaultValue"),
         deprecationReason |-> Get(argConfig, "deprecationReason"),
         extensions        |-> Get(argConfig, "extensions"),
         astNode           |-> Get(argConfig, "astNode")]]

\* defineArguments(config): one argument record per entry of the args map,
\* in Object.entries order
defineArguments(config) ==
    [i \in DOMAIN config.entries |->
        LET argName   == config.entries[i].key
            argConfig == config.entries[i].val IN
        [name              |-> argName,
         description       |-> Get(argConfig, "description"),
         type              |-> Get(argConfig, "type"),
         defaultValue      |-> Get(argConfig, "defaultValue"),
         deprecationReason |-> Get(argConfig, "deprecationReason"),
         extensions        |-> Get(argConfig, "extensions"),
         astNode           |-> Get(argConfig, "astNode")]]

\* Mutant of defineFieldMap: the resolver is not checked.
defineFieldMap_ResolverUnchecked(config, fieldMap) ==
    IF ~isPlainObj(fieldMap)
    THEN Throw([msg |-> "fields must be an object", owner |-> config.name])
    ELSE MapValueOrThrow(fieldMap,
        [i \in DOMAIN fieldMap.entries |->
            LET fieldName   == fieldMap.entries[i].key
                fieldConfig == fieldMap.entries[i].val
                argsConfig  == IF IsNullish(Get(fieldConfig, "args"))
                               THEN ObjMap(<<>>) ELSE Get(fieldConfig, "args")
            IN
            IF ~isPlainObj(fieldConfig)
            THEN Throw([msg |-> "field config must be an object",
                        owner |-> config.name, field |-> fieldName])
            ELSE IF ~isPlainObj(argsConfig)
            THEN Throw([msg |-> "args must be an object",
                        owner |-> config.name, field |-> fieldName])
            ELSE Ok([name              |-> fieldName,
                     description       |-> Get(fieldConfig, "description"),
                     type              |-> Get(fieldConfig, "type"),
                     args              |-> defineArguments(argsConfig),
                     resolve           |-> Get(fieldConfig, "resolve"),
                     subscribe         |-> Get(fieldConfig, "subscribe"),
                     deprecationReason |-> Get(fieldConfig, "deprecationReason"),
                     extensions        |-> Get(fieldConfig, "extensions"),
                     astNode           |-> Get(fieldConfig, "astNode")])])

\* defineFieldMap(config) from the point where resolveObjMapThunk(config.fields)
\* has produced fieldMap
defineFieldMap(config, fieldMap) ==
    IF ~isPlainObj(fieldMap)
    THEN Throw([msg |-> "fields must be an object", owner |-> config.name])
    ELSE MapValueOrThrow(fieldMap,
        [i \in DOMAIN fieldMap.entries |->
            LET fieldName   == fieldMap.entries[i].key
                fieldConfig == fieldMap.entries[i].val
                resolve     == Get(fieldConfig, "resolve")
                argsConfig  == IF IsNullish(Get(fieldConfig, "args"))
                               THEN ObjMap(<<>>) ELSE Get(fieldConfig, "args")
            IN
            IF ~isPlainObj(fieldConfig)
            THEN Throw([msg |-> "field config must be an object",
                        owner |-> config.name, field |-> fieldName])
            ELSE IF ~(IsNullish(resolve) \/ TypeOf(resolve) = "function")
            THEN Throw([msg |-> "field resolver must be a function",
                        owner |-> config.name, field |-> fieldName])
            ELSE IF ~isPlainObj(argsConfig)
            THEN Throw([msg |-> "args must be an object",
                        owner |-> config.name, field |-> fieldName])
            ELSE Ok([name              |-> fieldName,
                     description       |-> Get(fieldConfig, "description"),
                     type              |-> Get(fieldConfig, "type"),
                     args              |-> defineArguments(argsConfig),
                     resolve           |-> resolve,
                     subscribe         |-> Get(fieldConfig, "subscribe"),
                     deprecationReason |-> Get(fieldConfig, "deprecationReason"),
                     extensions        |-> Get(fieldConfig, "extensions"),
                     astNode           |-> Get(fieldConfig, "astNode")])])

\* Mutant of defineInputFieldMap: a resolve property is rejected only when
\* its value is not null or undefined.
defineInputFieldMap_ValueChecked(config, fieldMap) ==
    IF ~isPlainObj(fieldMap)
    THEN Throw([msg |-> "fields must be an object", owner |-> config.name])
    ELSE MapValueOrThrow(fieldMap,
        [i \in DOMAIN fieldMap.entries |->
            LET fieldName   == fieldMap.entries[i].key
                fieldConfig == fieldMap.entries[i].val IN
            IF TypeOf(fieldConfig) \notin {"object", "function"} \/ fieldConfig = Null
            THEN Throw([msg |-> "TypeError: cannot use 'in' operator"])
            ELSE IF ~IsNullish(Get(fieldConfig, "resolve"))
            THEN Throw([msg |-> "field has a resolve property",
                        owner |-> config.name, field |-> fieldName])
            ELSE Ok([name              |-> fieldName,
                     description       |-> Get(fieldConfig, "description"),
                     type              |-> Get(fieldConfig, "type"),
                     defaultValue      |-> Get(fieldConfig, "defaultValue"),
                     deprecationReason |-> Get(fieldConfig, "deprecationReason"),
                     extensions        |-> Get(fieldConfig, "extensions"),
                     astNode           |-> Get(fieldConfig, "astNode")])])

\* defineInputFieldMap(config) from the point where
\* resolveObjMapThunk(config.fields) has produced fieldMap.  The in operator
\* throws a TypeError when its right operand is not an object.
defineInputFieldMap(config, fieldMap) ==
    IF ~isPlainObj(fieldMap)
    THEN Throw([msg |-> "fields must be an object", owner |-> config.name])
    ELSE MapValueOrThrow(fieldMap,
        [i \in DOMAIN fieldMap.entries |->
            LET fieldName   == fieldMap.entries[i].key
                fieldConfig == fieldMap.entries[i].val IN
            IF TypeOf(fieldConfig) \notin {"object", "function"} \/ fieldConfig = Null
            THEN Throw([msg |-> "TypeError: cannot use 'in' operator"])
            ELSE IF "resolve" \in DOMAIN fieldConfig
            THEN Throw([msg |-> "field has a resolve property",
                        owner |-> config.name, field |-> fieldName])
            ELSE Ok([name              |-> fieldName,
                     description       |-> Get(fieldConfig, "description"),
                     type              |-> Get(fieldConfig, "type"),
                     defaultValue      |-> Get(fieldConfig, "defaultValue"),
                     deprecationReason |-> Get(fieldConfig, "deprecationReason"),
                     extensions        |-> Get(fieldConfig, "extensions"),
                     astNode           |-> Get(fieldConfig, "astNode")])])

\* defineInterfaces(config) from the point where
\* resolveArrayThunk(config.interfaces ?? []) has produced interfaces
defineInterfaces(config, interfaces) ==
    IF ~isArray(interfaces)
    THEN Throw([msg |-> "interfaces must be an Array", owner |-> config.name])
    ELSE Ok(interfaces)

\* defineTypes(config) from the point where resolveArrayThunk(config.types)
\* has produced types
defineTypes(config, types) ==
    IF ~isArray(types)
    THEN Throw([msg |-> "Must provide Array of types", owner |-> config.name])
    ELSE Ok(types)

\* Mutant of isRequiredArgument: the default value is not looked at.
isRequiredArgument_IgnoresDefault(arg) == isNonNullType(arg.type)

\* isRequiredArgument(arg)
isRequiredArgument(arg) == isNonNullType(arg.type) /\ arg.defaultValue = Undefined

\* isRequiredInputField(field)
isRequiredInputField(field) == isNonNullType(field.type) /\ field.defaultValue = Undefined

\* Mutant of argsToArgsConfig: the default value is left out.
argsToArgsConfig_DropsDefault(args) ==
    ObjMap([i \in DOMAIN args |->
        [key |-> args[i].name,
         val |-> [description       |-> args[i].description,
                  type              |-> args[i].type,
                  deprecationReason |-> args[i].deprecationReason,
                  extensions        |-> args[i].extensions,
                  astNode           |-> args[i].astNode]]])

\* argsToArgsConfig(args): keyValMap over the argument records
argsToArgsConfig(args) ==
    ObjMap([i \in DOMAIN args |->
        [key |-> args[i].name,
         val |-> [description       |-> args[i].description,
                  type              |-> args[i].type,
                  defaultValue      |-> args[i].defaultValue,
                  deprecationReason |-> args[i].deprecationReason,
                  extensions        |-> args[i].extensions,
                  astNode           |-> args[i].astNode]]])

\* fieldsToFieldsConfig(fields)
fieldsToFieldsConfig(fields) ==
    ObjMap([i \in DOMAIN fields.entries |->
        LET field == fields.entries[i].val IN
        [key |-> fields.entries[i].key,
         val |-> [description       |-> field.description,
                  type              |-> field.type,
                  args              |-> argsToArgsConfig(field.args),
                  resolve           |-> field.resolve,
                  subscribe         |-> field.subscribe,
                  deprecationReason |-> field.deprecationReason,
                  extensions        |-> field.extensions,
                  astNode           |-> field.astNode]]])

\* the fields of GraphQLInputObjectType.toConfig(): mapValue over getFields()
inputFieldsToFieldsConfig(fields) ==
    ObjMap([i \in DOMAIN fields.entries |->
        LET field == fields.entries[i].val IN
        [key |-> fields.entries[i].key,
         val |-> [description  |-> field.description,
                  type         |-> field.type,
                  defaultValue |-> field.defaultValue,
                  extensions   |-> field.extensions,
                  astNode      |-> field.astNode]]])

(***************************************************************************)
(* Lazily resolved cells: _fields and _interfaces of an Object or          *)
(* Interface type, _types of a Union type, _fields of an InputObject type. *)
(*                                                                         *)
(* The constructor stores a bound producer in each cell.  An accessor      *)
(* replaces the producer by its result.  The producer calls the thunk the  *)
(* configuration supplies; the thunk is user code: while it runs it may    *)
(* call accessors of the same type, change the environment, or throw.  A   *)
(* running thunk is a frame on the stack; the accessor's store happens     *)
(* when the frame returns.                                                 *)
(***************************************************************************)
CellKinds == {"Object", "Interface", "Union", "InputObject"}

CellNames(kind) ==
    CASE kind \in {"Object", "Interface"} -> {"fields", "interfaces"}
      [] kind = "Union"                   -> {"types"}
      [] kind = "InputObject"             -> {"fields"}

\* Mutant of ToConfigOrder: toConfig() reads the fields only.
ToConfigOrder_FieldsOnly(kind) ==
    CASE kind \in {"Object", "Interface"} -> <<"fields">>
      [] kind = "Union"                   -> <<"types">>
      [] kind = "InputObject"             -> <<"fields">>

\* the cells toConfig() reads, in the order it reads them
ToConfigOrder(kind) ==
    CASE kind \in {"Object", "Interface"} -> <<"interfaces", "fields">>
      [] kind = "Union"                   -> <<"types">>
      [] kind = "InputObject"             -> <<"fields">>

\* values of the environment the thunks read
Envs == {0, 1, 2}

IntType == Named("Scalar")
Obj2 == [kind |-> "Object", name |-> "Object2"]

\* What a thunk of the given cell returns when the environment is e: two
\* different valid collections, and one the producer rejects.
ThunkOutput(kind, c, e) ==
    CASE c = "interfaces" ->
           (CASE e = 0 -> Arr(<<>>)
              [] e = 1 -> Arr(<<Named("Interface")>>)
              [] e = 2 -> Undefined)
      [] c = "types" ->
           (CASE e = 0 -> Arr(<<Named("Object")>>)
              [] e = 1 -> Arr(<<Named("Object"), Obj2>>)
              [] e = 2 -> Undefined)
      [] c = "fields" /\ kind = "InputObject" ->
           (CASE e = 0 -> ObjMap(<<[key |-> "x", val |-> [type |-> IntType]]>>)
              [] e = 1 -> ObjMap(<<[key |-> "x",
                                    val |-> [type |-> [kind |-> "NonNull", ofType |-> IntType],
                                             defaultValue |-> Num(0)]],
                                   [key |-> "y",
                                    val |-> [type |-> Named("InputObject"),
                                             deprecationReason |-> Str("old")]]>>)
              [] e = 2 -> ObjMap(<<[key |-> "x", val |-> [type |-> IntType, resolve |-> Null]]>>))
      [] c = "fields" /\ kind # "InputObject" ->
           (CASE e = 0 -> ObjMap(<<[key |-> "a", val |-> [type |-> IntType]]>>)
              [] e = 1 -> ObjMap(<<[key |-> "a",
                                    val |-> [type |-> Named("Object"),
                                             args |-> ObjMap(<<[key |-> "x",
                                                                val |-> [type |-> IntType]]>>),
                                             resolve |-> Func("resolver")]],
                                   [key |-> "b",
                                    val |-> [type |-> IntType,
                                             deprecationReason |-> Str("old")]]>>)
              [] e = 2 -> ObjMap(<<[key |-> "a",
                                    val |-> [type |-> IntType, resolve |-> Str("x")]]>>))

Thunk == Func("thunk")

\* what a configuration may supply for a cell: a thunk, or a collection
Supplies(kind, c) == {Thunk, ThunkOutput(kind, c, 0), ThunkOutput(kind, c, 2)}

TypeConfigs ==
    UNION {[kind : {k}, name : {k}, supplied : {f \in [CellNames(k) -> UNION {Supplies(k, c) : c \in CellNames(k)}] :
                                                   \A c \in CellNames(k) : f[c] \in Supplies(k, c)}]
           : k \in CellKinds}

\* the producer the constructor binds for a cell
Producer(kind, c) ==
    CASE c = "interfaces" -> Func("defineInterfaces")
      [] c = "types"      -> Func("defineTypes")
      [] c = "fields" /\ kind = "InputObject" -> Func("defineInputFieldMap")
      [] c = "fields" /\ kind # "InputObject" -> Func("defineFieldMap")

\* the producer of a cell applied to what the thunk (or the configuration)
\* produced
Define(config, c, produced) ==
    CASE c = "interfaces" -> defineInterfaces(config, produced)
      [] c = "types"      -> defineTypes(config, produced)
      [] c = "fields" /\ config.kind = "InputObject" -> defineInputFieldMap(config, produced)
      [] c = "fields" /\ config.kind # "InputObject" -> defineFieldMap(config, produced)

\* a supplied collection as the producer reads it: config.interfaces ?? []
Supplied(config, c) ==
    IF c = "interfaces" /\ IsNullish(config.supplied[c]) THEN Arr(<<>>) ELSE config.supplied[c]

\* Mutant of NeedsResolve: the accessor resolves on every call.
NeedsResolve_Always(cell) == TRUE

\* the accessors' test: typeof this._fields === 'function'
NeedsResolve(cell) == TypeOf(cell) = "function"

\* Mutant of Store: the accessor returns the result without keeping it.
Store_Forgets(cell, value) == cell

\* the accessors' assignment: this._fields = this._fields()
Store(cell, value) == value

Resolved(c) == TypeOf(cells[c]) # "function"

Top == IF stack = <<>> THEN [op |-> "none", todo |-> <<>>] ELSE stack[Len(stack)]

\* user code runs: at top level, or inside a thunk that has not returned
UserRuns == stack = <<>> \/ Top.op = "get"

\* toConfig() is about to call the accessor of cell c
ToConfigCalls(c) == Top.op = "toConfig" /\ Top.todo # <<>> /\ Top.todo[1] = c

MayCall(c) == c \in DOMAIN cells /\ (UserRuns \/ ToConfigCalls(c))

\* The accessor of cell c ends with outcome r, below it the calls stk: the
\* outcome goes to user code, or to the toConfig() that made the call, which
\* goes on with its next cell or is ended by the throw.
Deliver(c, r, stk) ==
    IF stk # <<>> /\ stk[Len(stk)].op = "toConfig"
    THEN IF r.ok
         THEN /\ stack' = [stk EXCEPT ![Len(stk)].todo = Tail(@)]
              /\ ret' = [op |-> "get", cell |-> c, out |-> r]
         ELSE /\ stack' = SubSeq(stk, 1, Len(stk) - 1)
              /\ ret' = [op |-> "toConfig", out |-> r]
    ELSE /\ stack' = stk
         /\ ret' = [op |-> "get", cell |-> c, out |-> r]

NoteFailure(c, r) ==
    hist' = IF r.ok THEN hist ELSE [hist EXCEPT ![c].failed = TRUE]

\* getFields() / getInterfaces() / getTypes() on a cell that holds its
\* collection: the collection is returned
GetResolved(c) ==
    /\ MayCall(c)
    /\ ~NeedsResolve(cells[c])
    /\ Deliver(c, Ok(cells[c]), stack)
    /\ UNCHANGED <<iterVars, tconfig, env, cells, calls, hist, wrapVars, enumVars, argVars>>

\* the accessor on a cell whose configuration supplies a collection: the
\* producer runs to its end, no user code is called
GetSupplied(c) ==
    /\ MayCall(c)
    /\ NeedsResolve(cells[c])
    /\ TypeOf(tconfig.supplied[c]) # "function"
    /\ LET r == Define(tconfig, c, Supplied(tconfig, c)) IN
         /\ cells' = IF r.ok THEN [cells EXCEPT ![c] = Store(@, r.value)] ELSE cells
         /\ NoteFailure(c, r)
         /\ Deliver(c, r, stack)
    /\ UNCHANGED <<iterVars, tconfig, env, calls, wrapVars, enumVars, argVars>>

\* Mutant of GetCallsThunk: the accessor marks the cell resolved before the
\* thunk has returned.
GetCallsThunk_StoresFirst(c) ==
    /\ MayCall(c)
    /\ NeedsResolve(cells[c])
    /\ TypeOf(tconfig.supplied[c]) = "function"
    /\ calls[c] < MaxCalls
    /\ Len(stack) < MaxStack
    /\ calls' = [calls EXCEPT ![c] = @ + 1]
    /\ cells' = [cells EXCEPT ![c] = Arr(<<>>)]
    /\ stack' = Append(stack, [op |-> "get", cell |-> c,
                               out |-> ThunkOutput(tconfig.kind, c, env)])
    /\ hist' = IF \E i \in DOMAIN stack : stack[i].op = "get" /\ stack[i].cell = c
               THEN [hist EXCEPT ![c].nested = TRUE] ELSE hist
    /\ UNCHANGED <<iterVars, tconfig, env, ret, wrapVars, enumVars, argVars>>

\* the accessor on a cell whose configuration supplies a thunk: the producer
\* calls the thunk, which reads the environment
GetCallsThunk(c) ==
    /\ MayCall(c)
    /\ NeedsResolve(cells[c])
    /\ TypeOf(tconfig.supplied[c]) = "function"
    /\ calls[c] < MaxCalls
    /\ Len(stack) < MaxStack
    /\ calls' = [calls EXCEPT ![c] = @ + 1]
    /\ stack' = Append(stack, [op |-> "get", cell |-> c,
                               out |-> ThunkOutput(tconfig.kind, c, env)])
    /\ hist' = IF \E i \in DOMAIN stack : stack[i].op = "get" /\ stack[i].cell = c
               THEN [hist EXCEPT ![c].nested = TRUE] ELSE hist
    /\ UNCHANGED <<iterVars, tconfig, env, cells, ret, wrapVars, enumVars, argVars>>

\* the innermost running thunk returns: the producer checks and normalizes
\* what it returned, the accessor stores the result and returns it
ThunkReturns ==
    /\ stack # <<>> /\ Top.op = "get"
    /\ LET c == Top.cell
           r == Define(tconfig, c, Top.out) IN
         /\ cells' = IF r.ok THEN [cells EXCEPT ![c] = Store(@, r.value)] ELSE cells
         /\ NoteFailure(c, r)
         /\ Deliver(c, r, SubSeq(stack, 1, Len(stack) - 1))
    /\ UNCHANGED <<iterVars, tconfig, env, calls, wrapVars, enumVars, argVars>>

\* Mutant of ThunkThrows: the accessor stores undefined in the cell when
\* the thunk throws.
ThunkThrows_CachesUndefined ==
    /\ stack # <<>> /\ Top.op = "get"
    /\ LET c == Top.cell
           r == Throw([msg |-> "thrown by the thunk"]) IN
         /\ cells' = [cells EXCEPT ![c] = Undefined]
         /\ NoteFailure(c, r)
         /\ Deliver(c, r, SubSeq(stack, 1, Len(stack) - 1))
    /\ UNCHANGED <<iterVars, tconfig, env, calls, wrapVars, enumVars, argVars>>

\* the innermost running thunk throws: nothing is stored
ThunkThrows ==
    /\ stack # <<>> /\ Top.op = "get"
    /\ LET c == Top.cell
           r == Throw([msg |-> "thrown by the thunk"]) IN
         /\ NoteFailure(c, r)
         /\ Deliver(c, r, SubSeq(stack, 1, Len(stack) - 1))
    /\ UNCHANGED <<iterVars, tconfig, env, cells, calls, wrapVars, enumVars, argVars>>

\* toConfig() is called
ToConfigBegins ==
    /\ UserRuns
    /\ Len(stack) + 1 < MaxStack
    /\ stack' = Append(stack, [op |-> "toConfig", todo |-> ToConfigOrder(tconfig.kind)])
    /\ UNCHANGED <<iterVars, tconfig, env, cells, calls, ret, hist, wrapVars, enumVars, argVars>>

\* the configuration toConfig() builds once its accessor calls have returned
toConfig ==
    CASE tconfig.kind \in {"Object", "Interface"} ->
           [name |-> tconfig.name, interfaces |-> cells["interfaces"],
            fields |-> fieldsToFieldsConfig(cells["fields"])]
      [] tconfig.kind = "Union" ->
           [name |-> tconfig.name, types |-> cells["types"]]
      [] tconfig.kind = "InputObject" ->
           [name |-> tconfig.name, fields |-> inputFieldsToFieldsConfig(cells["fields"])]

\* toConfig() returns
ToConfigReturns ==
    /\ stack # <<>> /\ Top.op = "toConfig" /\ Top.todo = <<>>
    /\ stack' = SubSeq(stack, 1, Len(stack) - 1)
    /\ ret' = [op |-> "toConfig", out |-> Ok(toConfig)]
    /\ UNCHANGED <<iterVars, tconfig, env, cells, calls, hist, wrapVars, enumVars, argVars>>

\* user code changes the environment the thunks read
EnvChanges(e) ==
    /\ UserRuns
    /\ e # env
    /\ env' = e
    /\ UNCHANGED <<iterVars, tconfig, cells, calls, stack, ret, hist, wrapVars, enumVars, argVars>>

\* new GraphQLObjectType(config) and the three other constructors: every
\* cell holds its bound producer, no thunk has been called
Init ==
    /\ tconfig \in TypeConfigs
    /\ env \in Envs
    /\ cells = [c \in CellNames(tconfig.kind) |-> Producer(tconfig.kind, c)]
    /\ calls = [c \in CellNames(tconfig.kind) |-> 0]
    /\ hist = [c \in CellNames(tconfig.kind) |-> [failed |-> FALSE, nested |-> FALSE]]
    /\ stack = <<>>
    /\ ret = None
    /\ IdleWrap /\ IdleEnum /\ IdleArgs /\ IdleIter

Next ==
    \/ \E c \in {"fields", "interfaces", "types"} : GetResolved(c)
    \/ \E c \in {"fields", "interfaces", "types"} : GetSupplied(c)
    \/ \E c \in {"fields", "interfaces", "types"} : GetCallsThunk(c)
    \/ ThunkReturns
    \/ ThunkThrows
    \/ ToConfigBegins
    \/ ToConfigReturns
    \/ \E e \in Envs : EnvChanges(e)

Spec == Init /\ [][Next]_vars

(***************************************************************************)
(* Normalization of directly supplied field maps, and the required-ness of *)
(* the normalized arguments and input fields.                              *)
(***************************************************************************)
FieldNames == {"a", "b", "c"}
ArgNames   == {"x", "y", "z"}

NonNullInt     == [kind |-> "NonNull", ofType |-> IntType]
ListNonNullInt == [kind |-> "List", ofType |-> NonNullInt]

InputTypes == {IntType, NonNullInt, ListNonNullInt}

\* every record with the property type and any of the optional properties:
\* an optional property is absent, or present with one of its values
WithOptional(base, key, values) == base \cup {[x \in DOMAIN r \cup {key} |-> IF x = key THEN v ELSE r[x]] : r \in base, v \in values}

\* argument configurations: the default value is absent, undefined, null or 0
ArgConfigs ==
    WithOptional({[type |-> ty] : ty \in InputTypes}, "defaultValue", {Undefined, Null, Num(0)})

\* input field configurations: records with or without a default value and
\* with or without a resolve property (undefined, null or a function), an
\* array, and a string
InputFieldConfigs ==
    WithOptional(
        WithOptional({[type |-> ty] : ty \in {IntType, NonNullInt}}, "defaultValue", {Num(0)}),
        "resolve", {Undefined, Null, Func("resolver")})
    \cup {Arr(<<>>), Str("x")}

EntrySeqs(keys, vals, n) ==
    {m \in SeqsUpTo([key : keys, val : vals], n) :
        \A i, j \in DOMAIN m : i # j => m[i].key # m[j].key}

ArgsMaps == {ObjMap(m) : m \in EntrySeqs(ArgNames, ArgConfigs, MaxArgs)}

\* output field configurations without arguments: the resolver is absent,
\* null, a function or a string; args is null or an array; the config is no
\* record
PlainFieldConfigs ==
    WithOptional({[type |-> IntType]}, "resolve", {Null, Func("resolver"), Str("x")})
    \cup {[type |-> IntType, args |-> Null], [type |-> IntType, args |-> Arr(<<>>)],
          Arr(<<>>), Str("x")}

ArgsFieldConfigs == {[type |-> IntType, args |-> a] : a \in ArgsMaps}

\* the args maps of a field that stands next to another field: an argument
\* has no default, or is a NonNull one with the default 0
PairedArgsFieldConfigs ==
    {[type |-> IntType, args |-> ObjMap(m)] :
        m \in EntrySeqs(ArgNames,
                        {[type |-> IntType], [type |-> NonNullInt, defaultValue |-> Num(0)]},
                        MaxArgs)}

\* field maps of an Object or Interface type: fields without arguments; one
\* field with any args map; a field with arguments before or after a field
\* without
ObjectFieldMaps ==
    {ObjMap(m) : m \in EntrySeqs({"a", "b"}, PlainFieldConfigs, MaxFields)}
    \cup {ObjMap(<<[key |-> "a", val |-> f]>>) : f \in ArgsFieldConfigs}
    \cup {ObjMap(<<[key |-> "a", val |-> f], [key |-> "b", val |-> g]>>) :
             f \in PairedArgsFieldConfigs,
             g \in {[type |-> IntType], [type |-> IntType, resolve |-> Str("x")]}}
    \cup {ObjMap(<<[key |-> "b", val |-> g], [key |-> "a", val |-> f]>>) :
             f \in PairedArgsFieldConfigs,
             g \in {[type |-> IntType], [type |-> IntType, resolve |-> Str("x")]}}

\* field maps of the Interface types of the model: the ones without
\* arguments, and the pairs
InterfaceFieldMaps ==
    {m \in ObjectFieldMaps :
        Len(m.entries) = 1 =>
            (isPlainObj(m.entries[1].val) => "args" \notin DOMAIN m.entries[1].val)}

InputFieldMaps == {ObjMap(m) : m \in EntrySeqs(FieldNames, InputFieldConfigs, MaxFields)}

\* getFields() on an Object or Interface type constructed with this field map
DefineFields ==
    /\ fcfg.kind \in {"Object", "Interface"}
    /\ fres = None
    /\ fres' = [op |-> "getFields", out |-> defineFieldMap(fcfg, fcfg.fields)]
    /\ UNCHANGED <<iterVars, fcfg, wrapVars, enumVars, cellVars>>

\* inputObjectType.getFields() on a type constructed with this field map
DefineInputFields ==
    /\ fcfg.kind = "InputObject"
    /\ fres = None
    /\ fres' = [op |-> "getFields", out |-> defineInputFieldMap(fcfg, fcfg.fields)]
    /\ UNCHANGED <<iterVars, fcfg, wrapVars, enumVars, cellVars>>

Normalized == "op" \in DOMAIN fres /\ fres.op = "getFields" /\ fres.out.ok

\* isRequiredArgument(getFields()[field i].args[j])
RequiredArgument(i, j) ==
    /\ fcfg.kind \in {"Object", "Interface"}
    /\ Normalized
    /\ i \in DOMAIN fres.out.value.entries
    /\ j \in DOMAIN fres.out.value.entries[i].val.args
    /\ LET arg == fres.out.value.entries[i].val.args[j] IN
         fres' = [op |-> "isRequiredArgument", field |-> i, pos |-> j, arg |-> arg,
                  out |-> isRequiredArgument(arg)]
    /\ UNCHANGED <<iterVars, fcfg, wrapVars, enumVars, cellVars>>

\* isRequiredInputField(getFields()[field i])
RequiredInputField(i) ==
    /\ fcfg.kind = "InputObject"
    /\ Normalized
    /\ i \in DOMAIN fres.out.value.entries
    /\ LET field == fres.out.value.entries[i].val IN
         fres' = [op |-> "isRequiredInputField", field |-> i, arg |-> field,
                  out |-> isRequiredInputField(field)]
    /\ UNCHANGED <<iterVars, fcfg, wrapVars, enumVars, cellVars>>

InitFields ==
    /\ fcfg \in {[kind |-> "Object", name |-> "Object", fields |-> m] : m \in ObjectFieldMaps}
            \cup {[kind |-> "Interface", name |-> "Interface", fields |-> m] :
                     m \in InterfaceFieldMaps}
            \cup {[kind |-> "InputObject", name |-> "InputObject", fields |-> m] : m \in InputFieldMaps}
    /\ fres = None
    /\ IdleWrap /\ IdleEnum /\ IdleCell /\ IdleIter

NextFields ==
    \/ DefineFields
    \/ DefineInputFields
    \/ \E i \in 1..(MaxFields + 1), j \in 1..(MaxArgs + 1) : RequiredArgument(i, j)
    \/ \E i \in 1..(MaxFields + 1) : RequiredInputField(i)

SpecFields == InitFields /\ [][NextFields]_vars

(***************************************************************************)
(* Types as objects: the constructors, the accessors of the lazy parts and *)
(* toConfig() as functions of the type, and the construction of a second   *)
(* type from the configuration toConfig() returns.                         *)
(*                                                                         *)
(* A type is a record of its properties.  A lazy part (_fields,            *)
(* _interfaces, _types) holds the producer bound to the configuration      *)
(* until an accessor replaces it by the collection.  An accessor applied   *)
(* to a type yields [type, out]: the type after the call and what the call *)
(* returned or threw.  Thunks here return without throwing and without     *)
(* calling back into the type (Spec follows the ones that do).  Every      *)
(* configuration has a string as its name.                                 *)
(***************************************************************************)
\* a thunk returning v
ThunkOf(v) == [t |-> "function", f |-> "thunk", returns |-> v]

resolveArrayThunk(thunk) == IF TypeOf(thunk) = "function" THEN thunk.returns ELSE thunk

resolveObjMapThunk(thunk) == IF TypeOf(thunk) = "function" THEN thunk.returns ELSE thunk

\* producer.bind(undefined, config)
Bind(producer, config) == [t |-> "function", f |-> producer, config |-> config]

\* config.extensionASTNodes ?? []
ExtensionASTNodes(config) ==
    IF IsNullish(Get(config, "extensionASTNodes")) THEN Arr(<<>>) ELSE config.extensionASTNodes

\* v == null || typeof v === 'function'
NullOrFunction(v) == IsNullish(v) \/ TypeOf(v) = "function"

\* new GraphQLScalarType(config)
GraphQLScalarType(config) ==
    LET parser == IF IsNullish(Get(config, "parseValue"))
                  THEN Func("identityFunc") ELSE config.parseValue IN
    IF ~(IsNullish(Get(config, "specifiedByURL")) \/ TypeOf(config.specifiedByURL) = "string")
    THEN Throw([msg |-> "must provide specifiedByURL as a string", owner |-> config.name])
    ELSE IF ~NullOrFunction(Get(config, "serialize"))
    THEN Throw([msg |-> "must provide serialize function", owner |-> config.name])
    ELSE IF Truthy(Get(config, "parseLiteral"))
            /\ ~(TypeOf(Get(config, "parseValue")) = "function"
                 /\ TypeOf(config.parseLiteral) = "function")
    THEN Throw([msg |-> "must provide both parseValue and parseLiteral functions",
                owner |-> config.name])
    ELSE Ok([kind              |-> "Scalar",
             name              |-> config.name,
             description       |-> Get(config, "description"),
             specifiedByURL    |-> Get(config, "specifiedByURL"),
             serialize         |-> IF IsNullish(Get(config, "serialize"))
                                   THEN Func("identityFunc") ELSE config.serialize,
             parseValue        |-> parser,
             parseLiteral      |-> IF IsNullish(Get(config, "parseLiteral"))
                                   THEN [t |-> "function", f |-> "parseLiteral",
                                         parseValue |-> parser]
                                   ELSE config.parseLiteral,
             extensions        |-> Get(config, "extensions"),
             astNode           |-> Get(config, "astNode"),
             extensionASTNodes |-> ExtensionASTNodes(config)])

\* Mutant of GraphQLObjectType: the constructor resolves and checks the
\* field map itself.
GraphQLObjectType_Eager(config) ==
    LET r == defineFieldMap(config, resolveObjMapThunk(Get(config, "fields"))) IN
    IF ~NullOrFunction(Get(config, "isTypeOf"))
    THEN Throw([msg |-> "must provide isTypeOf as a function", owner |-> config.name])
    ELSE IF ~r.ok THEN r
    ELSE Ok([kind              |-> "Object",
             name              |-> config.name,
             description       |-> Get(config, "description"),
             isTypeOf          |-> Get(config, "isTypeOf"),
             extensions        |-> Get(config, "extensions"),
             astNode           |-> Get(config, "astNode"),
             extensionASTNodes |-> ExtensionASTNodes(config),
             _fields           |-> r.value,
             _interfaces       |-> Bind("defineInterfaces", config)])

\* new GraphQLObjectType(config)
GraphQLObjectType(config) ==
    IF ~NullOrFunction(Get(config, "isTypeOf"))
    THEN Throw([msg |-> "must provide isTypeOf as a function", owner |-> config.name])
    ELSE Ok([kind              |-> "Object",
             name              |-> config.name,
             description       |-> Get(config, "description"),
             isTypeOf          |-> Get(config, "isTypeOf"),
             extensions        |-> Get(config, "extensions"),
             astNode           |-> Get(config, "astNode"),
             extensionASTNodes |-> ExtensionASTNodes(config),
             _fields           |-> Bind("defineFieldMap", config),
             _interfaces       |-> Bind("defineInterfaces", config)])

\* new GraphQLInterfaceType(config)
GraphQLInterfaceType(config) ==
    IF ~NullOrFunction(Get(config, "resolveType"))
    THEN Throw([msg |-> "must provide resolveType as a function", owner |-> config.name])
    ELSE Ok([kind              |-> "Interface",
             name              |-> config.name,
             description       |-> Get(config, "description"),
             resolveType       |-> Get(config, "resolveType"),
             extensions        |-> Get(config, "extensions"),
             astNode           |-> Get(config, "astNode"),
             extensionASTNodes |-> ExtensionASTNodes(config),
             _fields           |-> Bind("defineFieldMap", config),
             _interfaces       |-> Bind("defineInterfaces", config)])

\* new GraphQLUnionType(config)
GraphQLUnionType(config) ==
    IF ~NullOrFunction(Get(config, "resolveType"))
    THEN Throw([msg |-> "must provide resolveType as a function", owner |-> config.name])
    ELSE Ok([kind              |-> "Union",
             name              |-> config.name,
             description       |-> Get(config, "description"),
             resolveType       |-> Get(config, "resolveType"),
             extensions        |-> Get(config, "extensions"),
             astNode           |-> Get(config, "astNode"),
             extensionASTNodes |-> ExtensionASTNodes(config),
             _types            |-> Bind("defineTypes", config)])

\* new GraphQLInputObjectType(config)
GraphQLInputObjectType(config) ==
    Ok([kind              |-> "InputObject",
        name              |-> config.name,
        description       |-> Get(config, "description"),
        extensions        |-> Get(config, "extensions"),
        astNode           |-> Get(config, "astNode"),
        extensionASTNodes |-> ExtensionASTNodes(config),
        _fields           |-> Bind("defineInputFieldMap", config)])

\* the constructor of each kind
Construct(kind, config) ==
    CASE kind = "Scalar"      -> GraphQLScalarType(config)
      [] kind = "Object"      -> GraphQLObjectType(config)
      [] kind = "Interface"   -> GraphQLInterfaceType(config)
      [] kind = "Union"       -> GraphQLUnionType(config)
      [] kind = "Enum"        -> Ok(GraphQLEnumType(config))
      [] kind = "InputObject" -> GraphQLInputObjectType(config)

\* an accessor call that changes nothing
Returns(type, value) == [type |-> type, out |-> Ok(value)]

\* an accessor call whose producer ended with r
Resolves(type, part, r) ==
    [type |-> IF r.ok THEN [type EXCEPT ![part] = r.value] ELSE type, out |-> r]

\* type.getFields() of an Object, Interface or InputObject type
getFields(type) ==
    IF TypeOf(type._fields) = "function"
    THEN LET config   == type._fields.config
             fieldMap == resolveObjMapThunk(Get(config, "fields")) IN
         Resolves(type, "_fields",
                  IF type._fields.f = "defineInputFieldMap"
                  THEN defineInputFieldMap(config, fieldMap)
                  ELSE defineFieldMap(config, fieldMap))
    ELSE Returns(type, type._fields)

\* type.getInterfaces() of an Object or Interface type
getInterfaces(type) ==
    IF TypeOf(type._interfaces) = "function"
    THEN LET config     == type._interfaces.config
             interfaces == resolveArrayThunk(IF IsNullish(Get(config, "interfaces"))
                                             THEN Arr(<<>>) ELSE config.interfaces) IN
         Resolves(type, "_interfaces", defineInterfaces(config, interfaces))
    ELSE Returns(type, type._interfaces)

\* type.getTypes() of a Union type
getTypes(type) ==
    IF TypeOf(type._types) = "function"
    THEN LET config == type._types.config IN
         Resolves(type, "_types",
                  defineTypes(config, resolveArrayThunk(Get(config, "types"))))
    ELSE Returns(type, type._types)

\* GraphQLScalarType.toConfig()
ScalarToConfig(type) ==
    Returns(type,
        [name              |-> type.name,
         description       |-> type.description,
         specifiedByURL    |-> type.specifiedByURL,
         serialize         |-> type.serialize,
         parseValue        |-> type.parseValue,
         parseLiteral      |-> type.parseLiteral,
         extensions        |-> type.extensions,
         astNode           |-> type.astNode,
         extensionASTNodes |-> type.extensionASTNodes])

\* GraphQLObjectType.toConfig(): getInterfaces(), then getFields()
ObjectToConfig(type) ==
    LET i == getInterfaces(type) IN
    IF ~i.out.ok THEN i
    ELSE LET f == getFields(i.type) IN
         IF ~f.out.ok THEN f
         ELSE Returns(f.type,
                [name              |-> type.name,
                 description       |-> type.description,
                 interfaces        |-> i.out.value,
                 fields            |-> fieldsToFieldsConfig(f.out.value),
                 isTypeOf          |-> type.isTypeOf,
                 extensions        |-> type.extensions,
                 astNode           |-> type.astNode,
                 extensionASTNodes |-> type.extensionASTNodes])

\* GraphQLInterfaceType.toConfig()
InterfaceToConfig(type) ==
    LET i == getInterfaces(type) IN
    IF ~i.out.ok THEN i
    ELSE LET f == getFields(i.type) IN
         IF ~f.out.ok THEN f
         ELSE Returns(f.type,
                [name              |-> type.name,
                 description       |-> type.description,
                 interfaces        |-> i.out.value,
                 fields            |-> fieldsToFieldsConfig(f.out.value),
                 resolveType       |-> type.resolveType,
                 extensions        |-> type.extensions,
                 astNode           |-> type.astNode,
                 extensionASTNodes |-> type.extensionASTNodes])

\* GraphQLUnionType.toConfig()
UnionToConfig(type) ==
    LET m == getTypes(type) IN
    IF ~m.out.ok THEN m
    ELSE Returns(m.type,
           [name              |-> type.name,
            description       |-> type.description,
            types             |-> m.out.value,
            resolveType       |-> type.resolveType,
            extensions        |-> type.extensions,
            astNode           |-> type.astNode,
            extensionASTNodes |-> type.extensionASTNodes])

\* GraphQLEnumType.toConfig(): keyValMap over getValues()
EnumToConfig(type) ==
    Returns(type,
        [name              |-> type.name,
         description       |-> type.description,
         values            |-> [i \in DOMAIN type.values |->
                                   [name   |-> type.values[i].name,
                                    config |-> [description       |-> type.values[i].description,
                                                value             |-> type.values[i].value,
                                                deprecationReason |-> type.values[i].deprecationReason,
                                                extensions        |-> type.values[i].extensions,
                                                astNode           |-> type.values[i].astNode]]],
         extensions        |-> type.extensions,
         astNode           |-> type.astNode,
         extensionASTNodes |-> type.extensionASTNodes])

\* GraphQLInputObjectType.toConfig()
InputObjectToConfig(type) ==
    LET f == getFields(type) IN
    IF ~f.out.ok THEN f
    ELSE Returns(f.type,
           [name              |-> type.name,
            description       |-> type.description,
            fields            |-> inputFieldsToFieldsConfig(f.out.value),
            extensions        |-> type.extensions,
            astNode           |-> type.astNode,
            extensionASTNodes |-> type.extensionASTNodes])

\* type.toConfig()
ToConfigOf(type) ==
    CASE type.kind = "Scalar"      -> ScalarToConfig(type)
      [] type.kind = "Object"      -> ObjectToConfig(type)
      [] type.kind = "Interface"   -> InterfaceToConfig(type)
      [] type.kind = "Union"       -> UnionToConfig(type)
      [] type.kind = "Enum"        -> EnumToConfig(type)
      [] type.kind = "InputObject" -> InputObjectToConfig(type)

\* the first accessor of a lazy part called on the type: getFields() where
\* there are fields, else getTypes(); a Scalar and an Enum have no lazy part
FirstAccessor(type) ==
    CASE type.kind \in {"Object", "Interface", "InputObject"} -> getFields(type)
      [] type.kind = "Union"                                  -> getTypes(type)
      [] OTHER                                                -> Returns(type, Undefined)

(***************************************************************************)
(* The configurations the types are constructed from.                      *)
(***************************************************************************)
\* an optional property: absent, or present with one of the values
Optional(key, values) == {<<>>} \cup {[k \in {key} |-> v] : v \in values}

\* the union of two records with disjoint properties
Merge(r1, r2) ==
    [k \in DOMAIN r1 \cup DOMAIN r2 |-> IF k \in DOMAIN r1 THEN r1[k] ELSE r2[k]]

\* a collection, supplied directly or by a thunk
DirectOrThunk(collections) == collections \cup {ThunkOf(c) : c \in collections}

\* output field configurations: a bare one; one with every property, two
\* arguments included; one with null args and resolver; and two that the
\* normalization rejects
OutputFieldConfigs ==
    {[type |-> IntType],
     [type |-> Obj2, description |-> Str("d"),
      args |-> ObjMap(<<[key |-> "y", val |-> [type |-> NonNullInt, defaultValue |-> Num(0)]],
                        [key |-> "x", val |-> [type |-> IntType, description |-> Str("d"),
                                               deprecationReason |-> Str("old")]]>>),
      resolve |-> Func("resolver"), subscribe |-> Func("subscriber"),
      deprecationReason |-> Str("old")],
     [type |-> IntType, args |-> Null, resolve |-> Null],
     [type |-> IntType, resolve |-> Str("x")],
     Arr(<<>>)}

\* input field configurations: a bare one, one with a default, a deprecated
\* one, and one the normalization rejects
InputObjectFieldConfigs ==
    {[type |-> IntType],
     [type |-> NonNullInt, defaultValue |-> Num(0), description |-> Str("d")],
     [type |-> IntType, deprecationReason |-> Str("old")],
     [type |-> IntType, resolve |-> Null]}

\* what a configuration states as its fields: a map or a thunk of one, or
\* something that is no map
FieldsOf(configs) ==
    DirectOrThunk({ObjMap(m) : m \in EntrySeqs({"a", "b"}, configs, MaxFields)})
    \cup {Undefined}

ObjectConfigs ==
    {Merge(Merge([name |-> "T", fields |-> f], i), o) :
        f \in FieldsOf(OutputFieldConfigs),
        i \in Optional("interfaces", {Arr(<<Named("Interface")>>),
                                      ThunkOf(Arr(<<Named("Interface")>>)), Str("x")}),
        o \in Optional("isTypeOf", {Func("isTypeOf"), Str("x")})}

InterfaceConfigs ==
    {Merge(Merge([name |-> "T", fields |-> f], i), o) :
        f \in FieldsOf(OutputFieldConfigs),
        i \in Optional("interfaces", {ThunkOf(Arr(<<Named("Interface")>>))}),
        o \in Optional("resolveType", {Func("resolveType"), Str("x")})}

UnionConfigs ==
    {Merge([name |-> "T", types |-> m], o) :
        m \in DirectOrThunk({Arr(<<Named("Object")>>), Arr(<<Obj2, Named("Object")>>)})
              \cup {Undefined},
        o \in Optional("resolveType", {Func("resolveType"), Str("x")})}

InputObjectConfigs ==
    {[name |-> "T", fields |-> f] : f \in FieldsOf(InputObjectFieldConfigs)}

\* enum value configurations, a deprecated and described one included
EnumConfigs ==
    {Merge([name |-> "T", values |-> m], d) :
        m \in {m \in SeqsUpTo([name   : EnumNames,
                               config : {EmptyObj, [value |-> Num(0)], [value |-> Null],
                                         [value |-> Str("RED"), description |-> Str("d"),
                                          deprecationReason |-> Str("old")]}],
                              MaxValues) :
                  \A i, j \in DOMAIN m : i # j => m[i].name # m[j].name},
        d \in Optional("description", {Str("d")})}

ScalarConfigs ==
    {Merge(Merge(Merge([name |-> "T"], s), Merge(v, l)), u) :
        s \in Optional("serialize", {Func("serialize"), Str("x")}),
        v \in Optional("parseValue", {Func("parseValue")}),
        l \in Optional("parseLiteral", {Func("parseLiteral")}),
        u \in Optional("specifiedByURL", {Str("https://example.com"), Num(0)})}

ConfigsOf(kind) ==
    CASE kind = "Scalar"      -> ScalarConfigs
      [] kind = "Object"      -> ObjectConfigs
      [] kind = "Interface"   -> InterfaceConfigs
      [] kind = "Union"       -> UnionConfigs
      [] kind = "Enum"        -> EnumConfigs
      [] kind = "InputObject" -> InputObjectConfigs

ConfigOp(op) == "op" \in DOMAIN fres /\ fres.op = op

\* new GraphQLXxxType(config)
NewType ==
    /\ fres = None
    /\ fres' = [op |-> "new", out |-> Construct(fcfg.kind, fcfg.config)]
    /\ UNCHANGED <<iterVars, fcfg, wrapVars, enumVars, cellVars>>

\* Mutant of CallAccessor: the producer normalizes in place, writing the
\* collection it built over the fields / types of the configuration.
CallAccessor_NormalizesInPlace ==
    /\ ConfigOp("new") /\ fres.out.ok
    /\ LET a    == FirstAccessor(fres.out.value)
           part == IF fcfg.kind = "Union" THEN "types" ELSE "fields" IN
         /\ fres' = [op |-> "accessor", type |-> a.type, out |-> a.out]
         /\ fcfg' = IF a.out.ok /\ part \in DOMAIN fcfg.config
                    THEN [fcfg EXCEPT !.config[part] = a.out.value] ELSE fcfg
    /\ UNCHANGED <<iterVars, wrapVars, enumVars, cellVars>>

\* the first accessor call on the constructed type
CallAccessor ==
    /\ ConfigOp("new") /\ fres.out.ok
    /\ LET a == FirstAccessor(fres.out.value) IN
         fres' = [op |-> "accessor", type |-> a.type, out |-> a.out]
    /\ UNCHANGED <<iterVars, fcfg, wrapVars, enumVars, cellVars>>

\* type.toConfig() on the constructed type
TypeToConfig ==
    /\ \/ ConfigOp("new") /\ fres.out.ok
       \/ ConfigOp("accessor")
    /\ LET type == IF fres.op = "new" THEN fres.out.value ELSE fres.type
           c    == ToConfigOf(type) IN
         fres' = [op |-> "toConfig", type |-> c.type, out |-> c.out]
    /\ UNCHANGED <<iterVars, fcfg, wrapVars, enumVars, cellVars>>

\* new GraphQLXxxType(type.toConfig()), and toConfig() of the new type
Rebuild ==
    /\ ConfigOp("toConfig") /\ fres.out.ok
    /\ LET second == Construct(fcfg.kind, fres.out.value) IN
         fres' = [op |-> "rebuild", first |-> fres.type, config |-> fres.out.value,
                  built |-> second,
                  second |-> IF second.ok THEN ToConfigOf(second.value)
                             ELSE [type |-> None, out |-> second]]
    /\ UNCHANGED <<iterVars, fcfg, wrapVars, enumVars, cellVars>>

InitConfig ==
    /\ fcfg \in UNION {[kind : {k}, config : ConfigsOf(k)] : k \in NamedKinds}
    /\ fres = None
    /\ IdleWrap /\ IdleEnum /\ IdleCell /\ IdleIter

NextConfig ==
    \/ NewType
    \/ CallAccessor
    \/ TypeToConfig
    \/ Rebuild

SpecConfig == InitConfig /\ [][NextConfig]_vars

(***************************************************************************)
(* mapAsyncIterator(source, mapper): the stream transformation the         *)
(* subscription tests exercise.  The mapped iterator forwards next(),      *)
(* return() and throw(e) to the source iterator and passes every event the *)
(* source yields through the mapper; when the mapper fails it closes the   *)
(* source by calling its return(), ignores what that call yields, and      *)
(* rejects with the mapper's error; from then on next() yields             *)
(* {value: undefined, done: true} without reading the source.              *)
(*                                                                         *)
(* A source is a plain iterable that has only next(), or an async          *)
(* generator of the shape the tests use:                                   *)
(*     try { yield items...; [throw Goodbye] } [catch (e) { yield e }]     *)
(*     finally { yield cleanup...; [return final] }                        *)
(* The caller awaits each call before it makes the next one, so a call on  *)
(* the mapped iterator is one step.                                        *)
(***************************************************************************)
IterResult(value, done) == [value |-> value, done |-> done]

Goodbye == [t |-> "error", message |-> "Goodbye"]

\* how a generator ends once its finally block is through
Normal         == [type |-> "normal", value |-> Undefined]
Returning      == [type |-> "return", value |-> Undefined]
Throwing(e)    == [type |-> "throw", value |-> e]

\* the events of the try block, and the values the finally block yields
Items      == [k \in 1..MaxItems |-> Num(k)]
Cleanup(n) == [k \in 1..n |-> Num(1000 * k)]

\* a generator before its first call: the program (what is left of items
\* and cleanup, yieldsInFinally, final, catches, fails) and where it stands
Generators ==
    {[kind |-> "generator", items |-> Items, cleanup |-> Cleanup(n), yieldsInFinally |-> n,
      final |-> f, catches |-> c, fails |-> x,
      mode |-> "start", pending |-> Normal, visitedFinally |-> FALSE, returnCalls |-> 0] :
        n \in 0..MaxCleanup, f \in {Undefined, Str("The End")}, c \in BOOLEAN, x \in BOOLEAN}

Iterables == [kind : {"iterable"}, items : {Items}, returnCalls : {0}]

\* typeof iterator.return === 'function', typeof iterator.throw === 'function'
HasReturn(s) == s.kind = "generator"
HasThrow(s)  == s.kind = "generator"

\* the generator yields value and is suspended in mode
Yields(s, mode, value) == [src |-> [s EXCEPT !.mode = mode], out |-> Ok(IterResult(value, FALSE))]

\* the finally block is through: its own return wins, else the generator
\* ends the way it was about to
Finish(s, completion) ==
    LET d == [s EXCEPT !.mode = "done", !.pending = Normal, !.visitedFinally = TRUE] IN
    IF s.final # Undefined THEN [src |-> d, out |-> Ok(IterResult(s.final, TRUE))]
    ELSE IF completion.type = "throw" THEN [src |-> d, out |-> Throw(completion.value)]
    ELSE [src |-> d, out |-> Ok(IterResult(completion.value, TRUE))]

\* control enters, or goes on in, the finally block
InFinally(s, completion) ==
    IF s.cleanup # <<>>
    THEN Yields([s EXCEPT !.cleanup = Tail(@), !.pending = completion, !.visitedFinally = TRUE],
                "finally", Head(s.cleanup))
    ELSE Finish(s, completion)

\* e is thrown inside the try block
Raise(s, e) == IF s.catches THEN Yields(s, "handler", e) ELSE InFinally(s, Throwing(e))

\* iterator.next() of the source
SourceNext(s) ==
    IF s.kind = "iterable"
    THEN IF s.items # <<>>
         THEN [src |-> [s EXCEPT !.items = Tail(@)], out |-> Ok(IterResult(Head(s.items), FALSE))]
         ELSE [src |-> s, out |-> Ok(IterResult(Undefined, TRUE))]
    ELSE CASE s.mode \in {"start", "body"} ->
                IF s.items # <<>> THEN Yields([s EXCEPT !.items = Tail(@)], "body", Head(s.items))
                ELSE IF s.fails THEN Raise(s, Goodbye)
                ELSE InFinally(s, Normal)
           [] s.mode = "handler" -> InFinally(s, Normal)
           [] s.mode = "finally" -> InFinally(s, s.pending)
           [] s.mode = "done"    -> [src |-> s, out |-> Ok(IterResult(Undefined, TRUE))]

\* iterator.return() of a generator: the finally block runs when the
\* generator is suspended inside the try or the catch block
SourceReturn(s) ==
    LET c == [s EXCEPT !.returnCalls = @ + 1] IN
    CASE s.mode \in {"body", "handler"} -> InFinally(c, Returning)
      [] OTHER -> [src |-> [c EXCEPT !.mode = "done", !.pending = Normal],
                   out |-> Ok(IterResult(Undefined, TRUE))]

\* iterator.throw(e) of a generator
SourceThrow(s, e) ==
    CASE s.mode = "body"    -> Raise(s, e)
      [] s.mode = "handler" -> InFinally(s, Throwing(e))
      [] OTHER -> [src |-> [s EXCEPT !.mode = "done", !.pending = Normal], out |-> Throw(e)]

\* the mappers of the tests: x => x + x, one that throws and one that
\* rejects for x > 1 and returns x otherwise
Mappers == {"double", "throwOver1", "rejectOver1"}

MapperFails(mapper, x) == mapper # "double" /\ x.t = "number" /\ x.n > 1

MapperError(x) == [t |-> "error", message |-> "Cannot count to", x |-> x]

Apply(mapper, x) ==
    IF mapper # "double" THEN x
    ELSE CASE x.t = "number" -> Num(x.n + x.n)
           [] x.t = "string" -> Str(x.s \o x.s)
           [] OTHER          -> [t |-> "sum", of |-> x]

\* Mutant of mapResult: a failing mapper does not close the source.
mapResult_LeavesSourceOpen(mapper, r) ==
    IF r.out.value.done THEN [src |-> r.src, out |-> r.out, called |-> FALSE]
    ELSE LET value == r.out.value.value IN
         IF ~MapperFails(mapper, value)
         THEN [src |-> r.src, out |-> Ok(IterResult(Apply(mapper, value), FALSE)), called |-> TRUE]
         ELSE [src |-> r.src, out |-> Throw(MapperError(value)), called |-> TRUE]

\* Mutant of mapResult: a done result is passed through the mapper too.
mapResult_MapsDone(mapper, r) ==
    LET value == r.out.value.value IN
    IF ~MapperFails(mapper, value)
    THEN [src |-> r.src, out |-> Ok(IterResult(Apply(mapper, value), r.out.value.done)),
          called |-> TRUE]
    ELSE [src |-> IF HasReturn(r.src) THEN SourceReturn(r.src).src ELSE r.src,
          out |-> Throw(MapperError(value)), called |-> TRUE]

\* mapResult(result): a done result as it is; else the mapped value, or,
\* when the mapper fails, the source closed and the mapper's error
mapResult(mapper, r) ==
    IF r.out.value.done THEN [src |-> r.src, out |-> r.out, called |-> FALSE]
    ELSE LET value == r.out.value.value IN
         IF ~MapperFails(mapper, value)
         THEN [src |-> r.src, out |-> Ok(IterResult(Apply(mapper, value), FALSE)), called |-> TRUE]
         ELSE [src |-> IF HasReturn(r.src) THEN SourceReturn(r.src).src ELSE r.src,
               out |-> Throw(MapperError(value)), called |-> TRUE]

\* mapResult(await r): a rejection of the source is the call's rejection
Awaited(mapper, r) ==
    IF r.out.ok THEN mapResult(mapper, r) ELSE [src |-> r.src, out |-> r.out, called |-> FALSE]

\* next() of the mapped iterator; failed: the mapper has failed for an
\* earlier event, and the iteration is over
next(mapper, s, failed) ==
    IF failed THEN [src |-> s, out |-> Ok(IterResult(Undefined, TRUE)), called |-> FALSE]
    ELSE Awaited(mapper, SourceNext(s))

\* return() of the mapped iterator
return(mapper, s) ==
    IF HasReturn(s) THEN Awaited(mapper, SourceReturn(s))
    ELSE [src |-> s, out |-> Ok(IterResult(Undefined, TRUE)), called |-> FALSE]

\* throw(error) of the mapped iterator
throw(mapper, s, error) ==
    IF HasThrow(s) THEN Awaited(mapper, SourceThrow(s, error))
    ELSE [src |-> s, out |-> Throw(error), called |-> FALSE]

Ouch == Str("ouch")

\* a call on the mapped iterator has ended with m: what the caller sees,
\* and what has happened so far
Called(op, m) ==
    /\ mapped.steps < MaxSteps
    /\ source' = m.src
    /\ mapped' = [mapped EXCEPT
                    !.steps    = @ + 1,
                    !.last     = [op |-> op, out |-> m.out, called |-> m.called,
                                  before |-> source, afterFailure |-> mapped.failed,
                                  afterDone |-> mapped.finished],
                    !.failed   = @ \/ (m.called /\ ~m.out.ok),
                    !.finished = @ \/ (/\ op \in {"return", "throw"}
                                       /\ (op = "return" => HasReturn(source))
                                       /\ (op = "throw" => HasThrow(source))
                                       /\ m.out.ok /\ m.out.value.done)]
    /\ UNCHANGED <<wrapVars, enumVars, cellVars, argVars>>

MappedNext   == Called("next", next(mapped.mapper, source, mapped.failed))
MappedReturn == Called("return", return(mapped.mapper, source))
MappedThrow  == Called("throw", throw(mapped.mapper, source, Ouch))

InitIter ==
    /\ source \in Generators \cup Iterables
    /\ mapped \in [mapper : Mappers, steps : {0}, last : {None}, failed : {FALSE},
                   finished : {FALSE}]
    /\ IdleWrap /\ IdleEnum /\ IdleCell /\ IdleArgs

NextIter ==
    \/ MappedNext
    \/ MappedReturn
    \/ MappedThrow

SpecIter == InitIter /\ [][NextIter]_vars

(***************************************************************************)
(* Properties of the wrapping constructors (checked under SpecWrap).       *)
(***************************************************************************)
WrapOp(op) == "op" \in DOMAIN tres /\ tres.op = op

\* some NonNull layer of type directly wraps another NonNull layer
RECURSIVE HasDoubleNonNull(_)
HasDoubleNonNull(type) ==
    /\ isWrappingType(type)
    /\ \/ (type.kind = "NonNull" /\ HasKind(type.ofType, "NonNull"))
       \/ HasDoubleNonNull(type.ofType)

\* C3: new GraphQLNonNull(x) throws the "nullable type" error when x is a
\* NonNull type (so no reachable type has a NonNull directly inside a
\* NonNull); it succeeds when x is one of the six named kinds or a List, and
\* then the new type's ofType is exactly x.
C3_NonNullRejectsNonNull ==
    /\ ~HasDoubleNonNull(tv)
    /\ WrapOp("NonNull") =>
         LET nullable == "kind" \in DOMAIN tres.arg
                         /\ tres.arg.kind \in NamedKinds \cup {"List"} IN
         /\ tres.out.ok <=> nullable
         /\ HasKind(tres.arg, "NonNull") => ~tres.out.ok
         /\ tres.out.ok =>
              /\ tres.out.value.kind = "NonNull"
              /\ tres.out.value.ofType = tres.arg
              /\ tv = tres.out.value
         /\ ~tres.out.ok =>
              /\ tres.out.error.msg = "Expected to be a GraphQL nullable type"
              /\ tres.out.error.value = tres.arg
              /\ tv = tres.arg

\* new GraphQLNonNull(NonNull(List(T))) has been called and has thrown
C3_Witness ==
    /\ WrapOp("NonNull")
    /\ HasKind(tres.arg, "NonNull")
    /\ HasKind(tres.arg.ofType, "List")
    /\ ~tres.out.ok

(***************************************************************************)
(* Properties of the enum codec (checked under SpecEnum).                  *)
(***************************************************************************)
EnumOp(op) == "op" \in DOMAIN eres /\ eres.op = op

\* the positions of the value records whose internal value is v
RecordsWith(v) == {i \in DOMAIN enum.values : enum.values[i].value = v}

\* the positions of the value records whose name is n
RecordsNamed(n) == {i \in DOMAIN enum.values : enum.values[i].name = n}

First(S) == CHOOSE i \in S : \A j \in S : i <= j
Last(S)  == CHOOSE i \in S : \A j \in S : i >= j

\* C4 as stated: when several value records carry the serialized internal
\* value, serialize returns the name of the record registered first.
C4_FirstRegisteredWins ==
    (EnumOp("serialize") /\ Cardinality(RecordsWith(eres.arg)) >= 2) =>
        eres.out = Ok(Str(enum.values[First(RecordsWith(eres.arg))].name))

\* C4 amended: when several value records carry the serialized internal
\* value, serialize returns the name of the record registered last, and the
\* name of no earlier record with that value.
C4_LastRegisteredWins ==
    (EnumOp("serialize") /\ Cardinality(RecordsWith(eres.arg)) >= 2) =>
        /\ eres.out = Ok(Str(enum.values[Last(RecordsWith(eres.arg))].name))
        /\ \A i \in RecordsWith(eres.arg) :
              i # Last(RecordsWith(eres.arg)) => eres.out.value # Str(enum.values[i].name)

\* serialize has been called with an internal value that two records carry
C4_Witness ==
    /\ EnumOp("serialize")
    /\ Cardinality(RecordsWith(eres.arg)) >= 2
    /\ eres.out.ok

\* C5 as stated: for every value record (n, v), parseValue(serialize(v)) is v
\* and serialize(parseValue(n)) is n.
C5_RoundTrip ==
    /\ EnumOp("parseValue.serialize") => eres.out = Ok(enum.values[eres.arg].value)
    /\ EnumOp("serialize.parseValue") => eres.out = Ok(Str(enum.values[eres.arg].name))

\* C5 amended: for every value record (n, v), parseValue(serialize(v)) is v,
\* and serialize(parseValue(n)) is the name of the last registered record
\* whose internal value is v, which is n when no later record carries v.
C5_RoundTripUpToCollision ==
    /\ EnumOp("parseValue.serialize") => eres.out = Ok(enum.values[eres.arg].value)
    /\ EnumOp("serialize.parseValue") =>
         LET same == RecordsWith(enum.values[eres.arg].value) IN
         /\ eres.out = Ok(Str(enum.values[Last(same)].name))
         /\ (\A j \in same : j <= eres.arg) => eres.out = Ok(Str(enum.values[eres.arg].name))

\* serialize(parseValue(n)) has been taken for a record that a later record
\* shares its internal value with
C5_Witness ==
    /\ EnumOp("serialize.parseValue")
    /\ \E j \in RecordsWith(enum.values[eres.arg].value) : j > eres.arg
    /\ eres.out.ok

\* C6: serialize of an internal value that no value record carries throws an
\* error naming the enum and the value (it returns nothing), and the enum
\* still is what the constructor built.
C6_SerializeUnknownThrows ==
    (EnumOp("serialize") /\ RecordsWith(eres.arg) = {}) =>
        /\ ~eres.out.ok
        /\ eres.out.error.msg = "cannot represent value"
        /\ eres.out.error.enum = enum.name
        /\ eres.out.error.value = eres.arg
        /\ enum = GraphQLEnumType(econfig)

\* serialize has thrown for a value that no record of a non-empty enum carries
C6_Witness ==
    /\ EnumOp("serialize")
    /\ enum.values # <<>>
    /\ RecordsWith(eres.arg) = {}
    /\ ~eres.out.ok

\* C7: parseValue returns the internal value of the record registered under
\* the input exactly when the input is a string equal to a registered name;
\* for every other input it throws.
C7_ParseValueExactlyRegisteredNames ==
    EnumOp("parseValue") =>
        LET registered == eres.arg.t = "string" /\ RecordsNamed(eres.arg.s) # {} IN
        /\ eres.out.ok <=> registered
        /\ registered =>
             eres.out.value = enum.values[CHOOSE i \in RecordsNamed(eres.arg.s) : TRUE].value
        /\ ~registered =>
             /\ eres.out.error.enum = enum.name
             /\ eres.out.error.value = eres.arg

\* parseValue has thrown for a non-string input that is the internal value of
\* a record
C7_Witness ==
    /\ EnumOp("parseValue")
    /\ eres.arg.t # "string"
    /\ RecordsWith(eres.arg) # {}
    /\ ~eres.out.ok

\* C8: parseLiteral returns a record's internal value exactly when the node
\* is an enum literal whose text is a registered name; every other node
\* throws an error carrying the node, whatever the variables mapping is.
C8_ParseLiteralOnlyEnumNodes ==
    EnumOp("parseLiteral") =>
        LET node       == eres.arg
            registered == node.kind = "EnumValue" /\ RecordsNamed(node.value) # {} IN
        /\ eres.out.ok <=> registered
        /\ registered =>
             eres.out.value = enum.values[CHOOSE i \in RecordsNamed(node.value) : TRUE].value
        /\ ~registered =>
             /\ eres.out.error.node = node
             /\ eres.out.error.enum = enum.name
             /\ eres.out.error.msg = IF node.kind = "EnumValue"
                                     THEN "does not exist in enum"
                                     ELSE "cannot represent non-enum value"

\* parseLiteral has thrown for the string literal "RED" although RED is a
\* registered name
C8_Witness ==
    /\ EnumOp("parseLiteral")
    /\ eres.arg = [kind |-> "StringValue", value |-> "RED"]
    /\ RecordsNamed("RED") # {}
    /\ ~eres.out.ok
    /\ eres.out.error.node = eres.arg

(***************************************************************************)
(* Properties of the lazily resolved cells (checked under Spec).           *)
(***************************************************************************)
IsThunk(c) == TypeOf(tconfig.supplied[c]) = "function"

\* a resolution of cell c has been started and has not ended
InProgress(c) == \E i \in DOMAIN stack : stack[i].op = "get" /\ stack[i].cell = c

\* the call that returned last was the accessor of cell c
Returned(c) == "op" \in DOMAIN ret /\ ret.op = "get" /\ ret.cell = c

\* C1 as stated, for thunks that do not call the accessors of their own
\* type: a thunk is not invoked by the constructor, is invoked by the first
\* accessor call, and is invoked exactly once in total whatever accessor and
\* toConfig calls follow.
C1_ThunkInvokedExactlyOnce ==
    \A c \in DOMAIN cells : (IsThunk(c) /\ ~hist[c].nested) =>
        /\ calls[c] <= 1
        /\ (Returned(c) \/ InProgress(c)) => calls[c] = 1

\* C1 amended: a thunk is not invoked by the constructor; an accessor call
\* that finds the cell unresolved invokes it (the first call, a call after a
\* resolution that threw, a call made while a resolution is in progress);
\* when no resolution has thrown or been started re-entrantly it has been
\* invoked exactly once; and once the cell is resolved with no resolution in
\* progress, no accessor or toConfig call invokes the thunk or changes the
\* cell, and an accessor returns the cached collection, whatever the
\* environment has become.
C1_ThunkInvokedOnceUnlessFailedOrReentered ==
    /\ \A c \in DOMAIN cells : calls[c] = 0 /\ ~Resolved(c)
    /\ [](\A c \in DOMAIN cells : IsThunk(c) =>
            /\ (Returned(c) \/ InProgress(c)) => calls[c] >= 1
            /\ (Resolved(c) /\ ~hist[c].failed /\ ~hist[c].nested) => calls[c] = 1
            /\ (Returned(c) /\ ret.out.ok /\ ~InProgress(c)) => ret.out.value = cells[c])
    /\ [][\A c \in DOMAIN cells : (IsThunk(c) /\ Resolved(c) /\ ~InProgress(c)) =>
            /\ calls'[c] = calls[c]
            /\ cells'[c] = cells[c]
            /\ ~InProgress(c)']_vars

\* a thunk-supplied cell whose first resolution threw has been resolved by
\* the second invocation, and an accessor has returned the cached collection
\* in an environment in which the thunk would produce something else
C1_Witness ==
    \E c \in DOMAIN cells :
        /\ IsThunk(c) /\ Resolved(c) /\ stack = <<>>
        /\ hist[c].failed /\ calls[c] = 2
        /\ ret = [op |-> "get", cell |-> c, out |-> Ok(cells[c])]
        /\ Ok(cells[c]) # Define(tconfig, c, ThunkOutput(tconfig.kind, c, env))

IsCollection(v) == "t" \in DOMAIN v /\ v.t \in {"array", "objmap"}

\* C2: after an accessor call has returned successfully the cell holds a
\* collection and no producer, and a cell that holds a collection never
\* holds a producer again.
C2_CellStaysResolved ==
    /\ [](\A c \in DOMAIN cells :
            /\ (Returned(c) /\ ret.out.ok) => (Resolved(c) /\ IsCollection(cells[c]))
            /\ Resolved(c) => IsCollection(cells[c]))
    /\ [][\A c \in DOMAIN cells : Resolved(c) => Resolved(c)']_vars

\* getFields() of an Object or Interface type has returned its field map
\* while the interfaces cell still holds its producer
C2_Witness ==
    /\ "fields" \in DOMAIN cells /\ "interfaces" \in DOMAIN cells
    /\ Returned("fields") /\ ret.out.ok
    /\ Resolved("fields") /\ ~Resolved("interfaces")
    /\ calls["fields"] = 1

(***************************************************************************)
(* Properties of field normalization (checked under SpecFields).           *)
(***************************************************************************)
FieldsOp(op) == "op" \in DOMAIN fres /\ fres.op = op

\* the in operator is defined on v: v is an object
IsObject(v) == TypeOf(v) \in {"object", "function"} /\ v # Null

\* the positions of the raw input field configs that have a resolve property
WithResolve == {i \in DOMAIN fcfg.fields.entries : "resolve" \in DOMAIN fcfg.fields.entries[i].val}

\* C9: getFields() of an InputObject throws the resolver-on-input-field error
\* naming the owner and the (first such) field whenever a raw field config
\* has a resolve property, whatever its value; without the property on any
\* field the field map is accepted.
C9_InputFieldWithResolveRejected ==
    (/\ FieldsOp("getFields") /\ fcfg.kind = "InputObject"
     /\ \A i \in DOMAIN fcfg.fields.entries : IsObject(fcfg.fields.entries[i].val)) =>
        /\ fres.out.ok <=> WithResolve = {}
        /\ WithResolve # {} =>
             fres.out.error = [msg   |-> "field has a resolve property",
                               owner |-> fcfg.name,
                               field |-> fcfg.fields.entries[First(WithResolve)].key]
        /\ WithResolve = {} =>
             /\ DOMAIN fres.out.value.entries = DOMAIN fcfg.fields.entries
             /\ \A i \in DOMAIN fcfg.fields.entries :
                   /\ fres.out.value.entries[i].key = fcfg.fields.entries[i].key
                   /\ fres.out.value.entries[i].val.name = fcfg.fields.entries[i].key
                   /\ fres.out.value.entries[i].val.type = Get(fcfg.fields.entries[i].val, "type")

\* getFields() of an InputObject has thrown for a field whose resolve
\* property is present with the value undefined, after a field without one
C9_Witness ==
    /\ FieldsOp("getFields") /\ fcfg.kind = "InputObject"
    /\ Len(fcfg.fields.entries) = 2
    /\ fcfg.fields.entries[1].val = [type |-> IntType]
    /\ fcfg.fields.entries[2].val = [type |-> IntType, resolve |-> Undefined]
    /\ ~fres.out.ok
    /\ fres.out.error.field = fcfg.fields.entries[2].key

\* the raw configuration of the argument / input field whose required-ness
\* was tested last
RawTested ==
    IF fres.op = "isRequiredArgument"
    THEN fcfg.fields.entries[fres.field].val.args.entries[fres.pos].val
    ELSE fcfg.fields.entries[fres.field].val

\* C10: isRequiredArgument / isRequiredInputField is true exactly when the
\* outermost layer of the configured type is NonNull and the configuration
\* states no default value (none, or undefined); a NonNull type with the
\* default 0 or null is not required, and a type whose outermost layer is
\* not NonNull (List of NonNull included) is never required.
C10_RequiredIffNonNullWithoutDefault ==
    (FieldsOp("isRequiredArgument") \/ FieldsOp("isRequiredInputField")) =>
        LET raw        == RawTested
            type       == Get(raw, "type")
            outerType  == IF "kind" \in DOMAIN type THEN type.kind ELSE "none"
            hasDefault == "defaultValue" \in DOMAIN raw /\ raw.defaultValue # Undefined IN
        /\ fres.out <=> (outerType = "NonNull" /\ ~hasDefault)
        /\ (outerType = "NonNull" /\ hasDefault) => ~fres.out
        /\ outerType # "NonNull" => ~fres.out

\* isRequiredArgument has answered false for the second argument of a field,
\* whose type is NonNull and whose default is null
C10_Witness ==
    /\ FieldsOp("isRequiredArgument")
    /\ fres.pos = 2
    /\ RawTested = [type |-> NonNullInt, defaultValue |-> Null]
    /\ ~fres.out

(***************************************************************************)
(* Properties of the classification predicates, their asserts and the      *)
(* unwrapping functions (checked under SpecWrap).                          *)
(***************************************************************************)
RECURSIVE Strip(_, _)
Strip(type, n) == IF n = 0 THEN type ELSE Strip(type.ofType, n - 1)

\* the value under all the wrapping layers of a value
NamedUnder(type) == Strip(type, Depth(type))

Constructed == (WrapOp("List") \/ WrapOp("NonNull")) /\ tres.out.ok

\* C14: isInputType and isOutputType are closed under wrapping.  A wrapping
\* type is an input (output) type exactly when its inner type is one; when T
\* is an input (output) type, new GraphQLList(T) succeeds and is one, and so
\* does new GraphQLNonNull(T) when T is nullable.
C14_ClosedUnderWrapping ==
    /\ isWrappingType(tv) =>
         /\ isInputType(tv) <=> isInputType(tv.ofType)
         /\ isOutputType(tv) <=> isOutputType(tv.ofType)
    /\ Constructed =>
         /\ tres.out.value.ofType = tres.arg
         /\ isInputType(tres.out.value) <=> isInputType(tres.arg)
         /\ isOutputType(tres.out.value) <=> isOutputType(tres.arg)
    /\ (WrapOp("List") /\ isInputType(tres.arg)) =>
         tres.out.ok /\ isInputType(tres.out.value)
    /\ (WrapOp("List") /\ isOutputType(tres.arg)) =>
         tres.out.ok /\ isOutputType(tres.out.value)
    /\ (WrapOp("NonNull") /\ isInputType(tres.arg) /\ isNullableType(tres.arg)) =>
         tres.out.ok /\ isInputType(tres.out.value)
    /\ (WrapOp("NonNull") /\ isOutputType(tres.arg) /\ isNullableType(tres.arg)) =>
         tres.out.ok /\ isOutputType(tres.out.value)

\* new GraphQLNonNull(List(InputObject)) has built an input type that is no
\* output type
C14_Witness ==
    /\ WrapOp("NonNull") /\ tres.out.ok
    /\ HasKind(tres.arg, "List")
    /\ HasKind(tres.arg.ofType, "InputObject")
    /\ isInputType(tv) /\ ~isOutputType(tv)

\* C15: for every value, isInputType holds exactly when the value is a type
\* whose named type under all wrappers is a Scalar, Enum or InputObject, and
\* isOutputType exactly when it is a Scalar, Object, Interface, Union or
\* Enum; so Scalars and Enums are both, Object / Interface / Union are never
\* input types, and InputObject is never an output type.
C15_InputOutputByNamedKind ==
    WrapOp("classify") =>
        LET kind == IF isType(tres.arg) THEN NamedUnder(tres.arg).kind ELSE "none" IN
        /\ tres.out["isInputType"] <=> kind \in {"Scalar", "Enum", "InputObject"}
        /\ tres.out["isOutputType"]
             <=> kind \in {"Scalar", "Object", "Interface", "Union", "Enum"}
        /\ kind \in {"Scalar", "Enum"} => tres.out["isInputType"] /\ tres.out["isOutputType"]
        /\ kind \in {"Object", "Interface", "Union"} => ~tres.out["isInputType"]
        /\ kind = "InputObject" => ~tres.out["isOutputType"]

\* List(NonNull(Union)) has been classified: an output type, no input type
C15_Witness ==
    /\ WrapOp("classify")
    /\ HasKind(tres.arg, "List")
    /\ HasKind(tres.arg.ofType, "NonNull")
    /\ HasKind(tres.arg.ofType.ofType, "Union")
    /\ tres.out["isOutputType"] /\ ~tres.out["isInputType"]

\* C16: getNamedType of n >= 0 List / NonNull layers around a named type T
\* returns T itself; undefined and null yield undefined; the result is never
\* a wrapping type.
C16_GetNamedTypeStripsAllLayers ==
    WrapOp("getNamedType") =>
        /\ isType(tres.arg) =>
             /\ tres.out = NamedUnder(tres.arg)
             /\ isNamedType(tres.out)
        /\ isNamedType(tres.arg) => tres.out = tres.arg
        /\ IsNullish(tres.arg) => tres.out = Undefined
        /\ ~isWrappingType(tres.out)

\* getNamedType(NonNull(List(NonNull(T)))) has returned T
C16_Witness ==
    /\ WrapOp("getNamedType")
    /\ HasKind(tres.arg, "NonNull")
    /\ HasKind(tres.arg.ofType, "List")
    /\ HasKind(tres.arg.ofType.ofType, "NonNull")
    /\ tres.out = tres.arg.ofType.ofType.ofType
    /\ isNamedType(tres.out)

\* C17: getNullableType(NonNull(T)) is T; getNullableType(T) is T for every
\* nullable T, a List of NonNull included; undefined and null yield
\* undefined; the result for a type is always a nullable type.
C17_GetNullableTypeStripsOneNonNull ==
    WrapOp("getNullableType") =>
        /\ isNonNullType(tres.arg) => tres.out = tres.arg.ofType
        /\ isNullableType(tres.arg) => tres.out = tres.arg
        /\ IsNullish(tres.arg) => tres.out = Undefined
        /\ isType(tres.arg) => isNullableType(tres.out)

\* getNullableType(List(NonNull(T))) has returned its argument: the inner
\* NonNull is kept
C17_Witness ==
    /\ WrapOp("getNullableType")
    /\ HasKind(tres.arg, "List")
    /\ HasKind(tres.arg.ofType, "NonNull")
    /\ tres.out = tres.arg

\* C20: each of the seventeen predicates yields a boolean for every value,
\* types and non-types alike; its assert function returns the very value
\* when the predicate holds and otherwise throws an error that carries the
\* expected kind (the same for every rejected value) and the value.
C20_PredicatesTotalAssertsThrow ==
    /\ WrapOp("classify") =>
         /\ DOMAIN tres.out = PredicateNames
         /\ \A p \in PredicateNames : tres.out[p] \in BOOLEAN
    /\ WrapOp("assert") =>
         /\ tres.pred \in PredicateNames
         /\ Predicate(tres.pred, tres.arg) => tres.out = Ok(tres.arg)
         /\ ~Predicate(tres.pred, tres.arg) =>
              /\ ~tres.out.ok
              /\ tres.out.error.value = tres.arg
              /\ tres.out.error.msg = PairedAssert(tres.pred, Undefined).error.msg
              /\ \A q \in PredicateNames \ {tres.pred} :
                   tres.out.error.msg # PairedAssert(q, Undefined).error.msg

\* assertNullableType(NonNull(List(T))) has thrown
C20_Witness ==
    /\ WrapOp("assert")
    /\ tres.pred = "isNullableType"
    /\ HasKind(tres.arg, "NonNull")
    /\ HasKind(tres.arg.ofType, "List")
    /\ ~tres.out.ok

(***************************************************************************)
(* Properties of output field normalization (checked under SpecFields).    *)
(***************************************************************************)
OutputOwner == fcfg.kind \in {"Object", "Interface"}

\* what is wrong with a field configuration, by the order of the checks
FieldFault(fieldConfig) ==
    IF TypeOf(fieldConfig) # "object" \/ fieldConfig = Null \/ isArray(fieldConfig)
    THEN "field config must be an object"
    ELSE IF ~(Get(fieldConfig, "resolve") \in {Undefined, Null}
              \/ TypeOf(Get(fieldConfig, "resolve")) = "function")
    THEN "field resolver must be a function"
    ELSE IF ~IsNullish(Get(fieldConfig, "args")) /\ ~isPlainObj(Get(fieldConfig, "args"))
    THEN "args must be an object"
    ELSE "none"

\* C18: getFields() of an Object or Interface type throws, naming the owner
\* and the field, for the first field in map order whose configuration is
\* an array or a primitive ("field config must be an object") or whose
\* resolve is present and neither null nor a function ("field resolver must
\* be a function"); when it returns, every field record carries the
\* resolve of its configuration unchanged: undefined when absent, null, or
\* the function.
C18_FieldConfigAndResolverChecked ==
    (FieldsOp("getFields") /\ OutputOwner) =>
        LET entries == fcfg.fields.entries
            faulty  == {i \in DOMAIN entries : FieldFault(entries[i].val) # "none"} IN
        /\ fres.out.ok <=> faulty = {}
        /\ faulty # {} =>
             LET i == CHOOSE i \in faulty : \A j \in faulty : i <= j IN
             /\ fres.out.error.msg = FieldFault(entries[i].val)
             /\ fres.out.error.owner = fcfg.name
             /\ fres.out.error.field = entries[i].key
        /\ faulty = {} =>
             /\ Len(fres.out.value.entries) = Len(entries)
             /\ \A i \in DOMAIN entries :
                  LET field == fres.out.value.entries[i].val IN
                  /\ fres.out.value.entries[i].key = entries[i].key
                  /\ field.name = entries[i].key
                  /\ field.resolve = Get(entries[i].val, "resolve")
                  /\ field.resolve \in {Undefined, Null} \/ TypeOf(field.resolve) = "function"

\* getFields() of an Interface has thrown the resolver error for its second
\* field, after a first field with a callable resolver
C18_Witness ==
    /\ FieldsOp("getFields") /\ fcfg.kind = "Interface"
    /\ Len(fcfg.fields.entries) = 2
    /\ Get(fcfg.fields.entries[1].val, "resolve") = Func("resolver")
    /\ ~fres.out.ok
    /\ fres.out.error.msg = "field resolver must be a function"
    /\ fres.out.error.field = fcfg.fields.entries[2].key

\* C19: the args of a normalized field list the entries of the field's args
\* configuration, each once and in the order of the configuration, with the
\* name, type and default value of the entry (undefined when the entry
\* states none); a field whose args configuration is absent or null has the
\* empty sequence.
C19_ArgumentsInConfigurationOrder ==
    (FieldsOp("getFields") /\ OutputOwner /\ fres.out.ok) =>
        \A i \in DOMAIN fcfg.fields.entries :
            LET argsConfig == Get(fcfg.fields.entries[i].val, "args")
                args       == fres.out.value.entries[i].val.args IN
            /\ IsNullish(argsConfig) => args = <<>>
            /\ ~IsNullish(argsConfig) =>
                 /\ Len(args) = Len(argsConfig.entries)
                 /\ \A j \in DOMAIN args :
                      /\ args[j].name = argsConfig.entries[j].key
                      /\ args[j].type = argsConfig.entries[j].val.type
                      /\ args[j].defaultValue =
                           IF "defaultValue" \in DOMAIN argsConfig.entries[j].val
                           THEN argsConfig.entries[j].val.defaultValue ELSE Undefined
                 /\ \A j, k \in DOMAIN args : j # k => args[j].name # args[k].name

\* a field with the arguments y (default 0) and x (no default), in this
\* order, has been normalized next to a field without args
C19_Witness ==
    /\ FieldsOp("getFields") /\ OutputOwner /\ fres.out.ok
    /\ Len(fres.out.value.entries) = 2
    /\ \E i \in 1..2 :
         LET args == fres.out.value.entries[i].val.args IN
         /\ Len(args) = 2
         /\ args[1].name = "y" /\ args[1].defaultValue = Num(0)
         /\ args[2].name = "x" /\ args[2].defaultValue = Undefined
         /\ fres.out.value.entries[3 - i].val.args = <<>>

(***************************************************************************)
(* Properties of construction, toConfig() and reconstruction (checked      *)
(* under SpecConfig).                                                      *)
(***************************************************************************)
Rebuilt(kinds) == ConfigOp("rebuild") /\ fcfg.kind \in kinds

\* the properties of an output field the round trip is to keep
SameOutputField(f, g) ==
    /\ f.name = g.name
    /\ f.description = g.description
    /\ f.type = g.type
    /\ Len(f.args) = Len(g.args)
    /\ \A j \in DOMAIN f.args :
         /\ f.args[j].name = g.args[j].name
         /\ f.args[j].description = g.args[j].description
         /\ f.args[j].type = g.args[j].type
         /\ f.args[j].defaultValue = g.args[j].defaultValue
         /\ f.args[j].deprecationReason = g.args[j].deprecationReason
    /\ f.resolve = g.resolve
    /\ f.subscribe = g.subscribe
    /\ f.deprecationReason = g.deprecationReason

\* the properties of an input field the round trip is to keep
SameInputField(f, g) ==
    /\ f.name = g.name
    /\ f.description = g.description
    /\ f.type = g.type
    /\ f.defaultValue = g.defaultValue
    /\ f.deprecationReason = g.deprecationReason
    /\ f.extensions = g.extensions
    /\ f.astNode = g.astNode

SameFieldMap(m1, m2, Same(_, _)) ==
    /\ Len(m1.entries) = Len(m2.entries)
    /\ \A i \in DOMAIN m1.entries :
         /\ m1.entries[i].key = m2.entries[i].key
         /\ Same(m1.entries[i].val, m2.entries[i].val)

\* C11: for a Scalar, Object, Interface, Union or Enum type whose
\* toConfig() has returned, the type constructed from the returned
\* configuration is of the same kind and name, resolves to the same fields
\* (name, description, type, ordered arguments with type and default,
\* resolve, subscribe, deprecationReason), the same interfaces or member
\* types, has the same enum value records and the same serialize and
\* parseValue outcome on every input, the same scalar functions, and its
\* toConfig() returns an equal configuration.
C11_ConfigRoundTrip ==
    Rebuilt({"Scalar", "Object", "Interface", "Union", "Enum"}) =>
        /\ fres.built.ok
        /\ fres.second.out.ok
        /\ fres.second.out.value = fres.config
        /\ LET t1 == fres.first
               t2 == fres.second.type IN
           /\ t2.kind = t1.kind
           /\ t2.name = t1.name
           /\ t1.kind \in {"Object", "Interface"} =>
                /\ SameFieldMap(t1._fields, t2._fields, SameOutputField)
                /\ t2._interfaces = t1._interfaces
           /\ t1.kind = "Union" => t2._types = t1._types
           /\ t1.kind = "Enum" =>
                /\ t2.values = t1.values
                /\ \A v \in CodecInputs :
                     /\ serialize(t2, v) = serialize(t1, v)
                     /\ parseValue(t2, v) = parseValue(t1, v)
           /\ t1.kind = "Scalar" =>
                /\ t2.serialize = t1.serialize
                /\ t2.parseValue = t1.parseValue
                /\ t2.parseLiteral = t1.parseLiteral

\* an Object type whose fields came from a thunk, one of them with two
\* arguments, a resolver and a deprecation reason, has been rebuilt from
\* its toConfig()
C11_Witness ==
    /\ Rebuilt({"Object"})
    /\ TypeOf(fcfg.config.fields) = "function"
    /\ Len(fres.first._fields.entries) = 2
    /\ \E i \in 1..2 :
         LET f == fres.second.type._fields.entries[i].val IN
         /\ Len(f.args) = 2
         /\ f.args[1].defaultValue = Num(0)
         /\ f.resolve = Func("resolver")
         /\ f.deprecationReason = Str("old")

\* C12: the type constructed from toConfig() of an InputObject type
\* resolves to the same input fields as the original: same names in the
\* same order, and per field the same name, description, type,
\* defaultValue, deprecationReason, extensions and astNode.
C12_InputObjectRoundTrip ==
    Rebuilt({"InputObject"}) =>
        /\ fres.second.out.ok
        /\ SameFieldMap(fres.first._fields, fres.second.type._fields, SameInputField)

\* C13 as stated: when the fields of an Object, Interface or InputObject
\* configuration violate a structural invariant, the constructor call
\* itself fails.
FieldsFaulty(kind, config) ==
    LET fieldMap == resolveObjMapThunk(Get(config, "fields")) IN
    \/ ~isPlainObj(fieldMap)
    \/ \E i \in DOMAIN fieldMap.entries :
         IF kind = "InputObject"
         THEN "resolve" \in DOMAIN fieldMap.entries[i].val
         ELSE FieldFault(fieldMap.entries[i].val) # "none"

FieldsOwner == fcfg.kind \in {"Object", "Interface", "InputObject"}

C13_FieldErrorsAtConstruction ==
    (ConfigOp("new") /\ FieldsOwner /\ FieldsFaulty(fcfg.kind, fcfg.config)) => ~fres.out.ok

\* C13, amended: the constructor of an Object, Interface or InputObject
\* type does not look at the fields: it succeeds whenever isTypeOf /
\* resolveType is null, undefined or a function, and leaves the producer in
\* _fields.  A structural violation of the fields is raised by the first
\* getFields() call, which leaves _fields unresolved, and by toConfig();
\* without a violation getFields() returns.
C13_FieldErrorsDeferredToAccessor ==
    FieldsOwner =>
        /\ ConfigOp("new") =>
             /\ fres.out.ok <=>
                  /\ NullOrFunction(Get(fcfg.config, "isTypeOf"))
                  /\ NullOrFunction(Get(fcfg.config, "resolveType"))
             /\ fres.out.ok => TypeOf(fres.out.value._fields) = "function"
        /\ ConfigOp("accessor") =>
             /\ fres.out.ok <=> ~FieldsFaulty(fcfg.kind, fcfg.config)
             /\ ~fres.out.ok =>
                  /\ TypeOf(fres.type._fields) = "function"
                  /\ fres.out.error.msg \in
                       {"fields must be an object", "field config must be an object",
                        "field resolver must be a function", "field has a resolve property"}
        /\ (ConfigOp("toConfig") /\ FieldsFaulty(fcfg.kind, fcfg.config)) => ~fres.out.ok

\* an InputObject type with a resolve property on a field has been
\* constructed, and its first getFields() has thrown
C13_Witness ==
    /\ ConfigOp("accessor") /\ fcfg.kind = "InputObject"
    /\ ~fres.out.ok
    /\ fres.out.error.msg = "field has a resolve property"
    /\ TypeOf(fres.type._fields) = "function"

(***************************************************************************)
(* Properties of a resolved cell under interleaved readers (checked under  *)
(* Spec).  A reader is any accessor call: by user code at top level, by    *)
(* user code inside a running thunk, or by toConfig().  The accessors are  *)
(* synchronous, so an interleaving of readers is a sequence of their       *)
(* calls, each of which may start while a thunk is still running.          *)
(***************************************************************************)
\* every cell toConfig() reads holds a collection and none is being resolved
Settled == \A c \in DOMAIN cells : Resolved(c) /\ ~InProgress(c)

\* C21 as stated: once a cell is resolved, no step invokes its thunk or
\* writes the cell, and an accessor call returns the collection the cell
\* held when it was first resolved.
C21_ResolvedCellNeverWritten ==
    [][\A c \in DOMAIN cells : Resolved(c) =>
          /\ calls'[c] = calls[c]
          /\ cells'[c] = cells[c]]_vars

\* C21, amended: once a cell is resolved and no resolution of it that began
\* earlier is still in progress, no reader (an accessor call at top level,
\* inside a thunk of another cell, or made by toConfig) invokes its thunk,
\* writes the cell or starts a resolution, and every successful reader
\* returns the collection the cell holds; toConfig() returns the
\* configuration built from the collections the cells hold.
C21_ResolvedCellReadOnlyForReaders ==
    /\ [](\A c \in DOMAIN cells : (Resolved(c) /\ ~InProgress(c)) =>
            ((Returned(c) /\ ret.out.ok) => ret.out.value = cells[c]))
    /\ []((Settled /\ "op" \in DOMAIN ret /\ ret.op = "toConfig" /\ ret.out.ok) =>
            ret.out.value = toConfig)
    /\ [][\A c \in DOMAIN cells : (Resolved(c) /\ ~InProgress(c)) =>
            /\ calls'[c] = calls[c]
            /\ cells'[c] = cells[c]
            /\ ~InProgress(c)'
            /\ (ret' # ret /\ Returned(c)') => ret'.out = Ok(cells[c])]_vars

\* a reader inside the running thunk of another cell has been handed the
\* collection of a thunk-supplied cell that was resolved by one invocation,
\* in an environment in which that thunk would now produce something else
C21_Witness ==
    \E c \in DOMAIN cells :
        /\ IsThunk(c) /\ Resolved(c) /\ ~InProgress(c) /\ calls[c] = 1
        /\ stack # <<>> /\ Top.op = "get" /\ Top.cell # c
        /\ ret = [op |-> "get", cell |-> c, out |-> Ok(cells[c])]
        /\ Ok(cells[c]) # Define(tconfig, c, ThunkOutput(tconfig.kind, c, env))

(***************************************************************************)
(* The caller's configuration (checked under SpecConfig).  fcfg is the     *)
(* configuration object the caller handed to the constructor; the type     *)
(* keeps a reference to it in its bound producers.                         *)
(***************************************************************************)
\* the lazy parts of a type that still hold a bound producer
PendingParts(type) ==
    {p \in {"_fields", "_interfaces", "_types"} \cap DOMAIN type : TypeOf(type[p]) = "function"}

\* the type the last call left behind
CurrentType ==
    CASE ConfigOp("new") /\ fres.out.ok            -> fres.out.value
      [] ConfigOp("accessor") \/ ConfigOp("toConfig") -> fres.type
      [] ConfigOp("rebuild")                       -> fres.first
      [] OTHER                                     -> None

\* C22: construction, the accessor call, toConfig() and the construction of
\* a second type from its result leave the caller's configuration (the
\* object, its field map or value map, every field config and args map) as
\* it was, whether the normalization returns or throws; and a producer that
\* is still pending reads that very configuration.
C22_ConfigurationNeverMutated ==
    /\ [](\A p \in PendingParts(CurrentType) : CurrentType[p].config = fcfg.config)
    /\ [][fcfg' = fcfg]_vars

\* getFields() of an Object type has normalized field "a" and then thrown on
\* the resolver of field "b"; the configuration still states both fields
C22_Witness ==
    /\ ConfigOp("accessor") /\ fcfg.kind = "Object"
    /\ ~fres.out.ok /\ fres.out.error.msg = "field resolver must be a function"
    /\ fcfg.config.fields.t = "objmap"
    /\ Len(fcfg.config.fields.entries) = 2
    /\ fres.out.error.field = fcfg.config.fields.entries[2].key
    /\ "args" \in DOMAIN fcfg.config.fields.entries[1].val
    /\ fcfg.config.fields.entries[1].val.args.t = "objmap"
    /\ fres.type._fields.config = fcfg.config

(***************************************************************************)
(* Properties of the suggestions (checked under SpecSuggest).              *)
(***************************************************************************)
\* the last call was a parse whose name lookup failed
LookupFailed == "message" \in DOMAIN eres /\ eres.message # None

\* the names the clause of the last message lists
Suggested == eres.message.clause.names

Registered == {enum.values[i].name : i \in DOMAIN enum.values}

Qualifying == {n \in Registered : LexicalDistance(eres.arg, n) <= Threshold(eres.arg)}

\* C23: when parseValue or parseLiteral fails to find a name, the clause of
\* the message lists only registered names whose edit distance from the
\* offending text is within the budget of that text, without repetition and
\* by increasing distance; it lists every such name while there are at most
\* five; and it is the empty string exactly when no registered name
\* qualifies.
C23_SuggestionsNearAndOrdered ==
    LookupFailed =>
        /\ eres.arg \notin Registered
        /\ \A i \in DOMAIN Suggested : Suggested[i] \in Qualifying
        /\ \A i, j \in DOMAIN Suggested : i < j =>
             /\ Suggested[i] # Suggested[j]
             /\ LexicalDistance(eres.arg, Suggested[i]) <= LexicalDistance(eres.arg, Suggested[j])
        /\ Cardinality(Qualifying) <= MAX_SUGGESTIONS =>
             {Suggested[i] : i \in DOMAIN Suggested} = Qualifying
        /\ eres.message.clause = NoClause <=> Qualifying = {}
        /\ eres.message.clause # NoClause => eres.message.clause.didYouMean = "the enum value"

\* parseValue("RDE") on an enum that registers REED before RED has failed
\* with the clause listing RED (one edit) before REED (two edits)
C23_Witness ==
    /\ LookupFailed /\ eres.op = "parseValue" /\ eres.arg = "RDE"
    /\ Len(enum.values) >= 2
    /\ enum.values[1].name = "REED" /\ enum.values[2].name = "RED"
    /\ Suggested = <<"RED", "REED">>
    /\ LexicalDistance("RDE", "RED") = 1 /\ LexicalDistance("RDE", "REED") = 2

(***************************************************************************)
(* Properties of the mapped iterator (checked under SpecIter).             *)
(***************************************************************************)
IterOp(op) == "op" \in DOMAIN mapped.last /\ mapped.last.op = op

DoneResult == Ok(IterResult(Undefined, TRUE))

\* the last call handed an event of the source to the mapper, which failed
MapperFailed == mapped.last.called /\ ~mapped.last.out.ok

\* the event the source yielded to the last call
EventOf(r) == r.out.value.value

Forwarded ==
    IF mapped.last.op = "return" THEN SourceReturn(mapped.last.before)
    ELSE SourceThrow(mapped.last.before, Ouch)

\* the source has the method the last call forwards to
HasMethod ==
    IF mapped.last.op = "return" THEN HasReturn(mapped.last.before)
    ELSE HasThrow(mapped.last.before)

\* C25: return() and throw(e) of the mapped iterator call the same method of
\* the source.  A result of the source that is not done comes back with its
\* value passed through the mapper; a done result comes back as it is, the
\* mapper is not called, and every later next() yields
\* {value: undefined, done: true}.  Without a return method return() yields
\* {value: undefined, done: true}, without a throw method throw(e) rejects
\* with e, and the source is not touched.  When the source itself rejects
\* (in next, return or throw) the call rejects with the source's error and
\* the mapper is not called.
C25_ReturnAndThrowForwarded ==
    /\ (IterOp("return") \/ IterOp("throw")) =>
         IF ~HasMethod
         THEN /\ source = mapped.last.before
              /\ ~mapped.last.called
              /\ IterOp("return") => mapped.last.out = DoneResult
              /\ IterOp("throw") => mapped.last.out = Throw(Ouch)
         ELSE /\ ~Forwarded.out.ok =>
                   /\ mapped.last.out = Throw(Forwarded.out.error)
                   /\ ~mapped.last.called
                   /\ source = Forwarded.src
              /\ (Forwarded.out.ok /\ Forwarded.out.value.done) =>
                   /\ mapped.last.out = Forwarded.out
                   /\ ~mapped.last.called
                   /\ source = Forwarded.src
              /\ (Forwarded.out.ok /\ ~Forwarded.out.value.done) =>
                   /\ mapped.last.called
                   /\ mapped.last.out.ok =>
                        mapped.last.out =
                            Ok(IterResult(Apply(mapped.mapper, EventOf(Forwarded)), FALSE))
                   /\ ~mapped.last.out.ok =>
                        mapped.last.out = Throw(MapperError(EventOf(Forwarded)))
    /\ (IterOp("next") /\ mapped.last.afterDone) => mapped.last.out = DoneResult
    /\ (IterOp("next") /\ ~SourceNext(mapped.last.before).out.ok) =>
         /\ mapped.last.out = Throw(SourceNext(mapped.last.before).out.error)
         /\ ~mapped.last.called

\* return() on a generator suspended in its try block has come back with the
\* first value of the finally block doubled by the mapper, not done
C25_Witness ==
    /\ IterOp("return") /\ mapped.mapper = "double"
    /\ mapped.last.before.kind = "generator" /\ mapped.last.before.mode = "body"
    /\ mapped.last.called
    /\ mapped.last.out = Ok(IterResult(Num(2000), FALSE))
    /\ source.mode = "finally" /\ source.returnCalls = 1

(***************************************************************************)
(* Failed, re-entrant and independent resolutions (checked under Spec).    *)
(***************************************************************************)
\* the step ends a call by delivering an error
DeliversError == "out" \in DOMAIN ret' /\ ~ret'.out.ok /\ (ret' # ret \/ stack' # stack)

\* C26: a cell that holds no collection holds the producer the constructor
\* bound.  A call that ends with an error (thrown by the thunk, or by the
\* producer's validation of what the thunk or the configuration supplied)
\* writes no cell: a cell that was unresolved keeps its producer, and the
\* error is what the accessor, or the toConfig() that called it, throws.
\* The next accessor call resolves again: a thunk is invoked once more, and
\* when it then returns a valid collection the call returns it and the cell
\* holds it; a collection the configuration supplies fails every time.
C26_FailedResolutionLeavesCellPending ==
    /\ [](\A c \in DOMAIN cells :
            /\ ~Resolved(c) => cells[c] = Producer(tconfig.kind, c)
            /\ (Returned(c) /\ ~ret.out.ok) => hist[c].failed
            /\ (Returned(c) /\ ~ret.out.ok /\ ~hist[c].nested) => ~Resolved(c)
            /\ (hist[c].failed /\ ~IsThunk(c)) => ~Resolved(c)
            /\ (hist[c].failed /\ IsThunk(c) /\ Resolved(c) /\ ~hist[c].nested) => calls[c] >= 2
            /\ (hist[c].failed /\ Returned(c) /\ ret.out.ok /\ ~InProgress(c)) =>
                 (Resolved(c) /\ ret.out.value = cells[c]))
    /\ [][DeliversError => cells' = cells]_vars

\* getFields() of an InputObject type whose thunk first returned a field
\* with a resolve property has thrown; the environment changed, the second
\* call invoked the thunk again and returned the field map the cell holds
C26_Witness ==
    /\ tconfig.kind = "InputObject" /\ IsThunk("fields")
    /\ hist["fields"].failed /\ ~hist["fields"].nested
    /\ calls["fields"] = 2 /\ stack = <<>>
    /\ Resolved("fields")
    /\ ret = [op |-> "get", cell |-> "fields", out |-> Ok(cells["fields"])]
    /\ cells["fields"] = defineInputFieldMap(tconfig, ThunkOutput("InputObject", "fields", env)).value

\* the resolutions of cell c that have been started and have not ended
Running(c) == {i \in DOMAIN stack : stack[i].op = "get" /\ stack[i].cell = c}

\* C27: the accessor tests the cell, calls the producer, and stores when the
\* producer has returned.  While resolutions of a thunk-supplied cell are
\* running and none has ended, the cell is unresolved; an accessor call on
\* that cell made by the running thunk does not return the cell but invokes
\* the thunk again, so that a second resolution of the same cell is running
\* only after a second invocation.
C27_ResolutionNotAtomic ==
    \A c \in DOMAIN cells :
        /\ (Running(c) # {} /\ Cardinality(Running(c)) = calls[c]) => ~Resolved(c)
        /\ Cardinality(Running(c)) <= calls[c]
        /\ Cardinality(Running(c)) >= 2 => hist[c].nested
        /\ hist[c].nested => calls[c] >= 2
        /\ (Running(c) # {} /\ ~Resolved(c) /\ Top.op = "get") =>
             /\ ~ENABLED GetResolved(c)
             /\ (calls[c] < MaxCalls /\ Len(stack) < MaxStack) => ENABLED GetCallsThunk(c)

\* the thunk of a cell, called by the first accessor call, has called the
\* accessor of its own cell: the thunk is running twice, the cell is
\* unresolved
C27_Witness ==
    \E c \in DOMAIN cells :
        /\ Cardinality(Running(c)) = 2 /\ calls[c] = 2
        /\ ~Resolved(c) /\ hist[c].nested /\ ~hist[c].failed
        /\ cells[c] = Producer(tconfig.kind, c)

\* The type of the current configuration as the constructor builds it, with
\* a description, extensions and an AST node; a thunk returns what it
\* returns in the current environment.
TypeNow ==
    LET given(c) == IF tconfig.supplied[c] = Thunk
                    THEN ThunkOf(ThunkOutput(tconfig.kind, c, env))
                    ELSE tconfig.supplied[c] IN
    Construct(tconfig.kind,
              [name        |-> tconfig.name,
               description |-> Str("described"),
               extensions  |-> [t |-> "object", owner |-> tconfig.name],
               astNode     |-> [t |-> "object", kind |-> "Definition"],
               fields      |-> given("fields"),
               interfaces  |-> given("interfaces")]).value

\* the properties of a type other than the given cell
Others(type, part) == DOMAIN type \ {part}

\* C28: the fields cell and the interfaces cell of an Object or Interface
\* type are independent.  A cell is written only by the return of its own
\* accessor, and a thunk is invoked only by a call of the accessor of its
\* own cell, so a step of one accessor leaves the other cell and its count
\* of invocations as they were.  When toConfig() has returned, every cell is
\* resolved.  On the type as constructed, in every environment, getFields()
\* leaves every property of the type but _fields as it was, getInterfaces()
\* every property but _interfaces, whichever is called first: the name,
\* the description, the extensions and the AST references are never changed.
C28_CellsIndependent ==
    /\ [](tconfig.kind \in {"Object", "Interface"} =>
            /\ ("op" \in DOMAIN ret /\ ret.op = "toConfig" /\ ret.out.ok) =>
                 (Resolved("fields") /\ Resolved("interfaces"))
            /\ (stack = <<>> /\ ret = None) =>
               LET t  == TypeNow
                   gf == getFields(t)
                   gi == getInterfaces(t) IN
                 /\ \A p \in Others(t, "_fields") : gf.type[p] = t[p]
                 /\ \A p \in Others(t, "_interfaces") : gi.type[p] = t[p]
                 /\ \A p \in Others(t, "_interfaces") :
                        getInterfaces(gf.type).type[p] = gf.type[p]
                 /\ \A p \in Others(t, "_fields") :
                        getFields(gi.type).type[p] = gi.type[p]
                 /\ gf.out.ok => gf.type._fields = gf.out.value
                 /\ gi.out.ok => gi.type._interfaces = gi.out.value)
    /\ [][tconfig.kind \in {"Object", "Interface"} =>
            \A d \in {"fields", "interfaces"} :
                /\ cells'[d] # cells[d] =>
                     /\ Returned(d)' /\ ret'.out.ok /\ ret'.out.value = cells'[d]
                     /\ \A e \in {"fields", "interfaces"} \ {d} :
                            cells'[e] = cells[e] /\ calls'[e] = calls[e]
                /\ calls'[d] # calls[d] =>
                     /\ Len(stack') = Len(stack) + 1
                     /\ Top'.op = "get" /\ Top'.cell = d
                     /\ calls'[d] = calls[d] + 1
                     /\ cells' = cells
                     /\ \A e \in {"fields", "interfaces"} \ {d} : calls'[e] = calls[e]]_vars

\* getInterfaces() of an Interface type has called the thunk of the
\* interfaces and resolved them; the thunk of the fields has not been
\* called, and the fields are unresolved
C28_Witness ==
    /\ tconfig.kind = "Interface"
    /\ tconfig.supplied["fields"] = Thunk /\ tconfig.supplied["interfaces"] = Thunk
    /\ stack = <<>> /\ Returned("interfaces") /\ ret.out.ok
    /\ Resolved("interfaces") /\ calls["interfaces"] = 1
    /\ ~Resolved("fields") /\ calls["fields"] = 0
    /\ cells["fields"] = Producer("Interface", "fields")

====
